---------------------------- MODULE Spec2Model ----------------------------
(***************************************************************************)
(* A model of dico (src/dico/__init__.py, src/dico/mutable.py): documents  *)
(* declared as typed fields, the owner-backlink change tracking through    *)
(* embedded documents and list / mapping proxies, the validity cache, and  *)
(* the generated import (from_N / update_from_N) and export (to_N)         *)
(* operations.                                                             *)
(*                                                                         *)
(* The heap is a sequence of objects (documents, NotifyList and NotifyDict *)
(* proxies); an object's identity is its index.  Every public operation is *)
(* one action; `last` records the operation, what it returned and what it  *)
(* raised.                                                                 *)
(***************************************************************************)
EXTENDS Integers, Sequences, FiniteSets, TLC

VARIABLES heap, last, nops, classes, limit

vars == <<heap, last, nops, classes, limit>>

(***************************************************************************)
(* Bounds of the model.                                                    *)
(***************************************************************************)
\* number of public operations performed after the initial constructions
MaxOps == 2
\* number of class declarations and pipeline registrations performed
MaxClassOps == 3
\* number of operations performed on a document that holds a bounded list
MaxListOps == 3
\* number of operations performed on a document that holds a list of lists
MaxNestedOps == 3
\* number of operations performed on a pair of documents of one type
MaxPairOps == 4

(***************************************************************************)
(* Python values.  A string is abstracted to its length; the string of     *)
(* length 7 stands for the IPv4 literal "1.2.3.4", the others are not IP   *)
(* literals.  A bool carries 0 / 1.  "dict" and "list" are plain Python    *)
(* containers (raw input, or the mapping an export returns); "ref" is a    *)
(* reference to a heap object.                                             *)
(***************************************************************************)
Unset == [k |-> "unset"]
None == [k |-> "none"]
IntV(i) == [k |-> "int", n |-> i]
StrV(n) == [k |-> "str", n |-> n]
BoolV(b) == [k |-> "bool", n |-> b]
Ref(o) == [k |-> "ref", n |-> o]
PyDict(m) == [k |-> "dict", m |-> m]
PyList(s) == [k |-> "list", s |-> s]
EmptyMap == [x \in {} |-> None]

\* dict.get(key): None when the key is missing
DictGet(m, key) == IF key \in DOMAIN m THEN m[key] ELSE None

\* m[key] = v on a function used as a dict
DictPut(m, key, v) == [x \in DOMAIN m \cup {key} |-> IF x = key THEN v ELSE m[x]]

\* del m[key]
DictDel(m, key) == [x \in DOMAIN m \ {key} |-> m[x]]

(***************************************************************************)
(* Field descriptors (BaseField.__init__ and the subclasses' __init__).    *)
(* NoLen stands for max_length / min_length = None, NoChoices for          *)
(* choices = None.  A default that is a zero-argument factory is recorded  *)
(* by factory = TRUE with `default` the value the factory returns.         *)
(***************************************************************************)
NoLen == -1
NoChoices == {None}

BaseField(kind, required, default, factory, choices) ==
    [kind |-> kind, is_required |-> required, default |-> default,
     factory |-> factory, choices |-> choices,
     max_length |-> NoLen, min_length |-> NoLen,
     field_type |-> "", subfield |-> None, keysubfield |-> None,
     valuesubfield |-> None]

StringField(required, maxlen) ==
    [BaseField("str", required, None, FALSE, NoChoices) EXCEPT !.max_length = maxlen]

IntegerField(required, default, factory, choices) ==
    BaseField("int", required, default, factory, choices)

BooleanField(required, default) ==
    BaseField("bool", required, default, FALSE, NoChoices)

IPAddressField == BaseField("ip", FALSE, None, FALSE, NoChoices)

EmbeddedDocumentField(type) ==
    [BaseField("embedded", FALSE, None, FALSE, NoChoices) EXCEPT !.field_type = type]

\* ListField.__init__: the default is [] unless one is given
ListField(sub, required, minlen, maxlen) ==
    [BaseField("list", required, PyList(<<>>), FALSE, NoChoices) EXCEPT
        !.subfield = sub, !.min_length = minlen, !.max_length = maxlen]

\* MappingField.__init__: the default is {} unless one is given
MappingField(keysub, valsub) ==
    [BaseField("mapping", FALSE, PyDict(EmptyMap), FALSE, NoChoices) EXCEPT
        !.keysubfield = keysub, !.valuesubfield = valsub]

(***************************************************************************)
(* The document types the model is checked on, declared as the tests       *)
(* declare theirs: an OAuthToken with a required bounded string and a      *)
(* required field with a default value, a User with a required field with  *)
(* a factory default and choices, an embedded token and a required list of *)
(* embedded tokens, a Group embedding a User beside an IP address, a       *)
(* length-bounded list of integers and a mapping of embedded tokens.       *)
(***************************************************************************)
Types == {"OAuthToken", "User", "Group"}

Fields(type) ==
    CASE type = "OAuthToken" ->
           [consumer_secret |-> StringField(TRUE, 2),
            active |-> BooleanField(TRUE, BoolV(1))]
      [] type = "User" ->
           [id |-> IntegerField(TRUE, IntV(2), TRUE, {IntV(2), IntV(3), StrV(1)}),
            token |-> EmbeddedDocumentField("OAuthToken"),
            tokens |-> ListField(EmbeddedDocumentField("OAuthToken"), TRUE, NoLen, NoLen)]
      [] type = "Group" ->
           [user |-> EmbeddedDocumentField("User"),
            ip |-> IPAddressField,
            friends |-> ListField(IntegerField(FALSE, None, FALSE, NoChoices), FALSE, 1, 2),
            tags |-> MappingField(StringField(FALSE, NoLen),
                                  EmbeddedDocumentField("OAuthToken"))]
      \* a list of lists of integers: rows = ListField(ListField(IntegerField()))
      [] type = "Matrix" ->
           [rows |-> ListField(ListField(IntegerField(FALSE, None, FALSE, NoChoices),
                                         FALSE, NoLen, NoLen),
                               FALSE, NoLen, NoLen)]

\* the order in which self._fields.keys() yields the names of a type
FieldOrder(type) ==
    CASE type = "OAuthToken" -> <<"consumer_secret", "active">>
      [] type = "User" -> <<"id", "token", "tokens">>
      [] type = "Group" -> <<"user", "ip", "friends", "tags">>
      [] type = "Matrix" -> <<"rows">>

FieldNames(type) == DOMAIN Fields(type)

\* a name that no type declares
UndeclaredNames == {"truc"}


(***************************************************************************)
(* Heap objects.  A document carries its instance attributes (`vals` for   *)
(* the declared names, Unset for a name absent from the instance, `extra`  *)
(* for the others), _modified_fields, _is_valid and _parents; a proxy      *)
(* carries its contents and _parents.  A backlink is                       *)
(* <<owner, field name, role>>: role "field" is the field descriptor bound *)
(* to that name, role "sub" the subfield (or valuesubfield) descriptor of  *)
(* a list (or mapping) field, which is registered under the same name.     *)
(***************************************************************************)
NoErr == "none"

\* Document.__init__, before update_from_dict
NewDocument(type) ==
    [kind |-> "doc", type |-> type,
     vals |-> [f \in FieldNames(type) |-> Unset],
     extra |-> EmptyMap, modified |-> {}, is_valid |-> FALSE, parents |-> {}]

\* NotifyList.__init__
NotifyList(items) == [kind |-> "list", items |-> items, parents |-> {}]

\* NotifyDict.__init__
NotifyDict(m) == [kind |-> "dict", map |-> m, parents |-> {}]

Objs(h) == DOMAIN h
Docs(h) == {o \in DOMAIN h : h[o].kind = "doc"}
Lists(h) == {o \in DOMAIN h : h[o].kind = "list"}
Dicts(h) == {o \in DOMAIN h : h[o].kind = "dict"}

IsRef(v) == v.k = "ref"
IsDocRef(h, v) == v.k = "ref" /\ h[v.n].kind = "doc"
\* isinstance(value, field_type)
IsInstance(h, v, type) == v.k = "ref" /\ h[v.n].kind = "doc" /\ h[v.n].type = type
\* isinstance(value, MutableSequence) / isinstance(value, MutableMapping)
IsSequence(h, v) == v.k = "list" \/ (v.k = "ref" /\ h[v.n].kind = "list")
IsMapping(h, v) == v.k = "dict" \/ (v.k = "ref" /\ h[v.n].kind = "dict")
\* hasattr(value, "_parents")
HasParents(v) == v.k = "ref"

SeqItems(h, v) == IF v.k = "list" THEN v.s ELSE h[v.n].items
MapItems(h, v) == IF v.k = "dict" THEN v.m ELSE h[v.n].map

\* the keys a mapping may hold, in the order items() yields them
KeyOrder == <<"k1", "k2">>
Keys == {KeyOrder[i] : i \in DOMAIN KeyOrder}
KeysOf(m) == SelectSeq(KeyOrder, LAMBDA x : x \in DOMAIN m)

(***************************************************************************)
(* BaseField._changed: mark the instance, then notify every backlink,      *)
(* recursively.  The set _parents is iterated in an order the program does *)
(* not fix, so the result is the set of outcomes over all orders.  `path`  *)
(* is the set of instances on the recursion stack: entering one of them    *)
(* again never returns (the interpreter raises RuntimeError, maximum       *)
(* recursion depth exceeded), with the marks made so far kept.             *)
(***************************************************************************)
\* a mark that forgets the names marked before
MarkReplacing(h, inst, fname) ==
    [h EXCEPT ![inst].modified = {fname}, ![inst].is_valid = FALSE]

Mark(h, inst, fname) ==
    [h EXCEPT ![inst].modified = @ \cup {fname}, ![inst].is_valid = FALSE]

RECURSIVE ChangedFrom(_, _, _, _)
RECURSIVE NotifyFrom(_, _, _)

\* for parent, parent_field in parents: parent_field._changed(parent)
NotifyFrom(h, parents, path) ==
    IF parents = {} THEN {[h |-> h, err |-> NoErr]}
    ELSE UNION { UNION { IF r.err # NoErr THEN {r}
                         ELSE NotifyFrom(r.h, parents \ {p}, path)
                         : r \in ChangedFrom(h, p[1], p[2], path) }
                 : p \in parents }

ChangedFrom(h, inst, fname, path) ==
    LET h1 == Mark(h, inst, fname)
    IN  IF inst \in path
        THEN {[h |-> h1, err |-> "RuntimeError"]}
        ELSE NotifyFrom(h1, h1[inst].parents, path \cup {inst})

\* the same walk that stops at the instance: owners are not notified
ChangedNoOwners(h, inst, fname) == {[h |-> Mark(h, inst, fname), err |-> NoErr]}

\* field._changed(instance)
Changed(h, inst, fname) == ChangedFrom(h, inst, fname, {})

\* the notification loop of a proxy operation
Notify(h, parents) == NotifyFrom(h, parents, {})

(***************************************************************************)
(* Classes.  `classes` maps a class name to what the class statement and   *)
(* the registrations left on the class object: its bases, its _fields, and *)
(* its own <N>_source_fields and <N>_view_fields attributes.  A class also *)
(* sees the attributes of its bases.  None stands for an argument left to  *)
(* its default, a PyList for a list of names.                              *)
(***************************************************************************)
PipelineNames == {"dict", "public", "short"}

\* the class Document itself
Root == "Document"

\* the order in which a _fields dict yields its names
NameOrder ==
    <<"consumer_secret", "active", "id", "name", "truc", "token", "tokens", "sub",
      "user", "ip", "friends", "tags", "rows">>

FieldSeq(fields) == SelectSeq(NameOrder, LAMBDA x : x \in DOMAIN fields)

Range(s) == {s[i] : i \in DOMAIN s}

\* isinstance(attr_value, BaseField)
IsField(v) == "kind" \in DOMAIN v

\* the document type a field embeds, directly, as the element of a list or as
\* the value of a mapping; "" when it embeds none
EmbeddedType(fd) ==
    IF fd.kind = "embedded" THEN fd.field_type
    ELSE IF fd.kind = "list" /\ fd.subfield.kind = "embedded" THEN fd.subfield.field_type
    ELSE IF fd.kind = "mapping" /\ fd.valuesubfield.kind = "embedded"
    THEN fd.valuesubfield.field_type
    ELSE ""

RECURSIVE HasAttr(_, _, _, _)
\* hasattr(cls, "<N>_source_fields") / hasattr(cls, "<N>_view_fields"): an
\* attribute of the class or of one of its bases
HasAttr(cl, c, kind, N) ==
    IF N \in DOMAIN cl[c][kind] THEN TRUE
    ELSE \E i \in DOMAIN cl[c].bases : HasAttr(cl, cl[c].bases[i], kind, N)

\* the first base through which the attribute is found
FirstBase(cl, c, kind, N) ==
    CHOOSE i \in DOMAIN cl[c].bases :
        /\ HasAttr(cl, cl[c].bases[i], kind, N)
        /\ \A j \in 1..(i - 1) : ~HasAttr(cl, cl[c].bases[j], kind, N)

RECURSIVE GetAttrOf(_, _, _, _)
\* getattr(cls, "<N>_source_fields") / getattr(cls, "<N>_view_fields")
GetAttrOf(cl, c, kind, N) ==
    IF N \in DOMAIN cl[c][kind] THEN cl[c][kind][N]
    ELSE GetAttrOf(cl, cl[c].bases[FirstBase(cl, c, kind, N)], kind, N)

\* add_source: the names of `fields`
SourceFieldsOf(fields, keep_fields, remove_fields) ==
    IF keep_fields # None THEN keep_fields.s
    ELSE IF remove_fields # None
    THEN SelectSeq(FieldSeq(fields), LAMBDA x : x \notin Range(remove_fields.s))
    ELSE FieldSeq(fields)

\* add_view with the deny-list tested first
ViewFieldsDenyFirst(fields, keep_fields, remove_fields) ==
    IF remove_fields # None
    THEN SelectSeq(FieldSeq(fields), LAMBDA x : x \notin Range(remove_fields.s))
    ELSE IF keep_fields # None THEN keep_fields.s
    ELSE FieldSeq(fields)

\* add_view: `fields`
ViewFieldsOf(fields, keep_fields, remove_fields) ==
    IF keep_fields # None THEN keep_fields.s
    ELSE IF remove_fields # None
    THEN SelectSeq(FieldSeq(fields), LAMBDA x : x \notin Range(remove_fields.s))
    ELSE FieldSeq(fields)

\* the type embedded by the field of class c called name; "" when name is not
\* a field or embeds nothing
NestedType(cl, c, name) ==
    IF name \in DOMAIN cl[c].fields THEN EmbeddedType(cl[c].fields[name]) ELSE ""

RECURSIVE AddSource(_, _, _, _, _)
RECURSIVE NestedSources(_, _, _, _)
RECURSIVE AddView(_, _, _, _, _)
RECURSIVE NestedViews(_, _, _, _)
RECURSIVE NestedViewsAlways(_, _, _, _)

\* the loop of add_source over fields: a default source N for every embedded
\* type that has none
NestedSources(cl, c, N, names) ==
    LET Visit(t) == IF t # "" /\ ~HasAttr(cl, t, "source", N)
                    THEN AddSource(cl, t, N, None, None)
                    ELSE cl
    IN  IF names = <<>> THEN cl
        ELSE NestedSources(Visit(NestedType(cl, c, Head(names))), c, N, Tail(names))

\* cls.add_source(name, keep_fields, remove_fields)
AddSource(cl, c, N, keep_fields, remove_fields) ==
    LET Register(names) ==
          NestedSources([cl EXCEPT ![c].source = DictPut(@, N, names)], c, N, names)
    IN  Register(SourceFieldsOf(cl[c].fields, keep_fields, remove_fields))

\* a loop that gives every embedded type a default view N, registered or not
NestedViewsAlways(cl, c, N, names) ==
    LET Visit(t) == IF t # "" THEN AddView(cl, t, N, None, None) ELSE cl
    IN  IF names = <<>> THEN cl
        ELSE NestedViewsAlways(Visit(NestedType(cl, c, Head(names))), c, N, Tail(names))

\* the loop of add_view over fields: a default view N for every embedded type
\* that has none
NestedViews(cl, c, N, names) ==
    LET Visit(t) == IF t # "" /\ ~HasAttr(cl, t, "view", N)
                    THEN AddView(cl, t, N, None, None)
                    ELSE cl
    IN  IF names = <<>> THEN cl
        ELSE NestedViews(Visit(NestedType(cl, c, Head(names))), c, N, Tail(names))

\* cls.add_view(name, keep_fields, remove_fields)
AddView(cl, c, N, keep_fields, remove_fields) ==
    LET Register(names) ==
          NestedViews([cl EXCEPT ![c].view = DictPut(@, N, names)], c, N, names)
    IN  Register(ViewFieldsOf(cl[c].fields, keep_fields, remove_fields))

\* base_fields = base._fields.copy(); base_fields.update(klass._fields)
Overlay(base_fields, fields) ==
    [x \in DOMAIN base_fields \cup DOMAIN fields |->
        IF x \in DOMAIN fields THEN fields[x] ELSE base_fields[x]]

RECURSIVE MergeBases(_, _, _)
\* for base in bases: klass._fields = base._fields overlaid with klass._fields
MergeBases(cl, bases, fields) ==
    IF bases = <<>> THEN fields
    ELSE MergeBases(cl, Tail(bases), Overlay(cl[Head(bases)].fields, fields))

\* the class keeps only the declarations of its bases
CompileBasesOnly(cl, name, bases, attrs) ==
    AddView(AddSource(DictPut(cl, name,
                              [bases |-> bases,
                               fields |-> MergeBases(cl, bases, EmptyMap),
                               source |-> EmptyMap, view |-> EmptyMap]),
                      name, "dict", None, None),
            name, "dict", None, None)

\* DocumentMetaClass.__new__(cls, name, bases, attrs)
Compile(cl, name, bases, attrs) ==
    AddView(AddSource(DictPut(cl, name,
                              [bases |-> bases,
                               fields |-> MergeBases(cl, bases,
                                   [a \in {x \in DOMAIN attrs : IsField(attrs[x])} |->
                                       attrs[a]]),
                               source |-> EmptyMap, view |-> EmptyMap]),
                      name, "dict", None, None),
            name, "dict", None, None)

\* Document itself is compiled by its metaclass, with no base that has _fields
RootClasses == Compile(EmptyMap, Root, <<>>, EmptyMap)

(***************************************************************************)
(* The classes of the model's document types, declared and registered in   *)
(* the order the tests do: OAuthToken registers its own "public" view with *)
(* an allow-list before User registers a "public" source with a deny-list  *)
(* and a "public" view with an allow-list; registering those gives the     *)
(* embedded OAuthToken a default "public" source and leaves its view.      *)
(* User also registers a "short" view with an allow-list that holds a      *)
(* field with a default; OAuthToken receives a default "short" view.       *)
(***************************************************************************)
SchemaClasses ==
    LET c1 == Compile(RootClasses, "OAuthToken", <<Root>>, Fields("OAuthToken"))
        c2 == AddView(c1, "OAuthToken", "public", PyList(<<"consumer_secret">>), None)
        c3 == Compile(c2, "User", <<Root>>, Fields("User"))
        c4 == AddSource(c3, "User", "public", None, PyList(<<"tokens">>))
        c5 == AddView(c4, "User", "public", PyList(<<"token", "tokens">>), None)
        c6 == AddView(c5, "User", "short", PyList(<<"id", "token">>), None)
    IN  Compile(c6, "Group", <<Root>>, Fields("Group"))

\* the same classes, the views of User registered before those of OAuthToken
SchemaClassesNestedLast ==
    LET c1 == Compile(RootClasses, "OAuthToken", <<Root>>, Fields("OAuthToken"))
        c2 == Compile(c1, "User", <<Root>>, Fields("User"))
        c3 == AddSource(c2, "User", "public", None, PyList(<<"tokens">>))
        c4 == AddView(c3, "User", "public", PyList(<<"token", "tokens">>), None)
        c5 == AddView(c4, "User", "short", PyList(<<"id", "token">>), None)
        c6 == AddView(c5, "OAuthToken", "public", PyList(<<"consumer_secret">>), None)
    IN  Compile(c6, "Group", <<Root>>, Fields("Group"))

\* the type has from_N and update_from_N
HasSource(type, N) == HasAttr(classes, type, "source", N)

\* the type has to_N
HasView(type, N) == HasAttr(classes, type, "view", N)

\* the field table followed by a name it does not hold
SourceFieldsPlusUnknown(type, N) == FieldOrder(type) \o <<"bad_name">>

\* <N>_source_fields
SourceFields(type, N) == GetAttrOf(classes, type, "source", N)

\* <N>_view_fields
ViewFields(type, N) == GetAttrOf(classes, type, "view", N)

(***************************************************************************)
(* Value preparation (_prepare of the composite fields), the import loop   *)
(* (add_source.update) and construction.  They allocate: each returns the  *)
(* new heap with the value.                                                *)
(***************************************************************************)
\* hasattr(field, "_prepare")
HasPrepare(fd) == fd.kind \in {"embedded", "list", "mapping"}

AddParent(h, o, inst, fname, role) ==
    [h EXCEPT ![o].parents = @ \cup {<<inst, fname, role>>}]

RECURSIVE Prepare(_, _, _, _, _, _, _)
RECURSIVE PrepareItems(_, _, _, _, _, _, _)
RECURSIVE PrepareEntries(_, _, _, _, _, _, _, _)
RECURSIVE Update(_, _, _, _, _, _)

\* Document.__init__(**values)
Construct(h, type, values) ==
    LET h1 == Append(h, NewDocument(type))
        r == CHOOSE x \in Update(h1, Len(h) + 1, "dict", values, FALSE,
                                 SourceFields(type, "dict")) : TRUE
    IN  [h |-> r.h, v |-> Ref(Len(h) + 1)]

\* a from_N that builds the instance and loads nothing into it
FromSourceEmpty(h, type, N, kwargs) ==
    [h |-> Append(h, NewDocument(type)), v |-> Ref(Len(h) + 1)]

\* the classmethod from_N(**kwargs): instance = cls(), then update_from_N
FromSource(h, type, N, kwargs) ==
    LET Load(c) ==
          [h |-> (CHOOSE x \in Update(c.h, c.v.n, N, kwargs, FALSE,
                                      SourceFields(type, N)) : TRUE).h,
           v |-> c.v]
    IN  Load(Construct(h, type, EmptyMap))

\* EmbeddedDocumentField._prepare leaving value._parents alone
PrepareEmbeddedNoParent(h, fd, role, inst, fname, value, source) ==
    LET N == IF source # "" /\ HasSource(fd.field_type, source) THEN source ELSE "dict"
    IN  IF value.k = "dict" THEN FromSource(h, fd.field_type, N, value.m)
        ELSE [h |-> h, v |-> value]

\* EmbeddedDocumentField._prepare
PrepareEmbedded(h, fd, role, inst, fname, value, source) ==
    LET N == IF source # "" /\ HasSource(fd.field_type, source) THEN source ELSE "dict"
        Link(r) ==
          IF IsInstance(r.h, r.v, fd.field_type)
          THEN [h |-> AddParent(r.h, r.v.n, inst, fname, role), v |-> r.v]
          ELSE r
    IN  Link(IF value.k = "dict" THEN FromSource(h, fd.field_type, N, value.m)
             ELSE [h |-> h, v |-> value])

\* the loop of ListField._prepare: obj_list.append(subfield._prepare(...));
\* the list has no backlink yet, so append notifies nobody
PrepareItems(h, p, sub, inst, fname, items, source) ==
    LET Put(r) == [r.h EXCEPT ![p].items = Append(@, r.v)]
    IN  IF items = <<>> THEN h
        ELSE PrepareItems(Put(Prepare(h, sub, "sub", inst, fname, Head(items), source)),
                          p, sub, inst, fname, Tail(items), source)

\* ListField._prepare
PrepareList(h, fd, role, inst, fname, value, source) ==
    LET Link(h1) == [h |-> AddParent(h1, Len(h) + 1, inst, fname, role),
                     v |-> Ref(Len(h) + 1)]
    IN  IF IsSequence(h, value)
        THEN Link(IF HasPrepare(fd.subfield)
                  THEN PrepareItems(Append(h, NotifyList(<<>>)), Len(h) + 1, fd.subfield,
                                    inst, fname, SeqItems(h, value), source)
                  ELSE Append(h, NotifyList(SeqItems(h, value))))
        ELSE [h |-> h, v |-> value]

\* the loop of MappingField._prepare: obj_mapping[key] = value
PrepareEntries(h, p, fd, inst, fname, m, keys, source) ==
    LET Put(r) == [r.h EXCEPT ![p].map = DictPut(@, Head(keys), r.v)]
    IN  IF keys = <<>> THEN h
        ELSE PrepareEntries(Put(IF HasPrepare(fd.valuesubfield)
                                THEN Prepare(h, fd.valuesubfield, "sub", inst, fname,
                                             m[Head(keys)], source)
                                ELSE [h |-> h, v |-> m[Head(keys)]]),
                            p, fd, inst, fname, m, Tail(keys), source)

\* MappingField._prepare
PrepareMapping(h, fd, role, inst, fname, value, source) ==
    LET Link(h1) == [h |-> AddParent(h1, Len(h) + 1, inst, fname, role),
                     v |-> Ref(Len(h) + 1)]
    IN  IF IsMapping(h, value)
        THEN Link(PrepareEntries(Append(h, NotifyDict(EmptyMap)), Len(h) + 1, fd, inst,
                                 fname, MapItems(h, value), KeysOf(MapItems(h, value)),
                                 source))
        ELSE [h |-> h, v |-> value]

\* field._prepare(instance, value, source); a field without _prepare keeps the value
Prepare(h, fd, role, inst, fname, value, source) ==
    CASE fd.kind = "embedded" -> PrepareEmbedded(h, fd, role, inst, fname, value, source)
      [] fd.kind = "list" -> PrepareList(h, fd, role, inst, fname, value, source)
      [] fd.kind = "mapping" -> PrepareMapping(h, fd, role, inst, fname, value, source)
      [] OTHER -> [h |-> h, v |-> value]

\* object.__setattr__(self, key, value) with the prepared value
Store(r, self, key) == [h |-> [r.h EXCEPT ![self].vals[key] = r.v], v |-> r.v]

\* an update that notifies whatever `changed` says
StoreFieldAlwaysChanged(h, self, key, value, N, changed) ==
    IF key \in FieldNames(h[self].type)
    THEN Changed(Store(Prepare(h, Fields(h[self].type)[key], "field", self, key, value, N),
                       self, key).h, self, key)
    ELSE {[h |-> [h EXCEPT ![self].extra = DictPut(@, key, value)], err |-> NoErr]}

\* what update does for one present key: a declared field is prepared, stored,
\* and notified if changed; a name that _fields does not know is stored as is
StoreField(h, self, key, value, N, changed) ==
    LET Tell(r) == IF changed THEN Changed(r.h, self, key)
                   ELSE {[h |-> r.h, err |-> NoErr]}
    IN  IF key \in FieldNames(h[self].type)
        THEN Tell(Store(Prepare(h, Fields(h[self].type)[key], "field", self, key, value, N),
                        self, key))
        ELSE {[h |-> [h EXCEPT ![self].extra = DictPut(@, key, value)], err |-> NoErr]}

\* add_source.update(self, data, changed) over the remaining keys
Update(h, self, N, data, changed, keys) ==
    IF keys = <<>> THEN {[h |-> h, err |-> NoErr]}
    ELSE IF DictGet(data, Head(keys)) = None
         THEN Update(h, self, N, data, changed, Tail(keys))
         ELSE UNION { IF c.err # NoErr THEN {c}
                      ELSE Update(c.h, self, N, data, changed, Tail(keys))
                      : c \in StoreField(h, self, Head(keys), DictGet(data, Head(keys)),
                                         N, changed) }

\* Document.__getattr__ ignoring the field's default
GetDefaultNone(h, d, name) == [h |-> h, v |-> None]

\* Document.__getattr__ without its object.__setattr__: the default is prepared
\* and returned, the instance keeps no attribute
GetDefaultUncached(h, d, name) ==
    IF Fields(h[d].type)[name].default # None
    THEN Prepare(h, Fields(h[d].type)[name], "field", d, name,
                 Fields(h[d].type)[name].default, "")
    ELSE [h |-> h, v |-> None]

\* Document.__getattr__, reached when the instance has no such attribute
GetDefault(h, d, name) ==
    IF Fields(h[d].type)[name].default # None
    THEN Store(Prepare(h, Fields(h[d].type)[name], "field", d, name,
                       Fields(h[d].type)[name].default, ""), d, name)
    ELSE [h |-> h, v |-> None]

\* getattr(self, name) for a declared field
GetAttr(h, d, name) ==
    IF h[d].vals[name] # Unset THEN [h |-> h, v |-> h[d].vals[name]]
    ELSE GetDefault(h, d, name)

\* d.name for any name: the instance attribute, else __getattr__, which raises
\* AttributeError for a name that is not in _fields
ReadAttribute(h, d, name) ==
    LET Got(g) == [h |-> g.h, v |-> g.v, err |-> NoErr]
    IN  IF name \in FieldNames(h[d].type) THEN Got(GetAttr(h, d, name))
    ELSE IF name \in DOMAIN h[d].extra
    THEN [h |-> h, v |-> h[d].extra[name], err |-> NoErr]
    ELSE [h |-> h, v |-> None, err |-> "AttributeError"]

(***************************************************************************)
(* Validation.  Each operator returns the heap (reading a field may        *)
(* materialize its default, validating an embedded document may set its    *)
(* cache), the boolean, and the error raised if any.                       *)
(***************************************************************************)
Ok(h, v) == [h |-> h, v |-> v, err |-> NoErr]
Raise(h, e) == [h |-> h, v |-> None, err |-> e]

\* a membership test that every value passes
InChoicesAny(value, choices) == TRUE

\* `value in field.choices`, with Python's equality (True == 1)
InChoices(value, choices) ==
    \/ value \in choices
    \/ value.k = "bool" /\ IntV(value.n) \in choices
    \/ value.k = "int" /\ BoolV(value.n) \in choices

\* a mapping key as a value
KeyValue(key) == StrV(2)

\* the length checks of ListField._validate and StringField._validate
LengthOk(fd, n) ==
    /\ fd.max_length = NoLen \/ n <= fd.max_length
    /\ fd.min_length = NoLen \/ n >= fd.min_length

\* socket.inet_pton accepts the literal
IsIPLiteral(value) == value.n = 7

RECURSIVE ValidateDoc(_, _, _)
RECURSIVE ValidateFields(_, _, _, _)
RECURSIVE ValidateValue(_, _, _)
RECURSIVE ValidateItems(_, _, _)
RECURSIVE ValidateEntries(_, _, _, _)

\* for entry in value: subfield._validate(entry)
ValidateItems(h, sub, items) ==
    LET Rest(r) == IF r.err # NoErr \/ ~r.v THEN r
                   ELSE ValidateItems(r.h, sub, Tail(items))
    IN  IF items = <<>> THEN Ok(h, TRUE)
        ELSE Rest(ValidateValue(h, sub, Head(items)))

\* for key, value in value.items(): keysubfield, then valuesubfield
ValidateEntries(h, fd, m, keys) ==
    LET Rest(rv) == IF rv.err # NoErr \/ ~rv.v THEN rv
                    ELSE ValidateEntries(rv.h, fd, m, Tail(keys))
        Value(rk) == IF rk.err # NoErr \/ ~rk.v THEN rk
                     ELSE Rest(ValidateValue(rk.h, fd.valuesubfield, m[Head(keys)]))
    IN  IF keys = <<>> THEN Ok(h, TRUE)
        ELSE Value(ValidateValue(h, fd.keysubfield, KeyValue(Head(keys))))

\* EmbeddedDocumentField._validate: the nested validate() is always strict
ValidateEmbedded(h, fd, value) ==
    IF ~IsInstance(h, value, fd.field_type) THEN Ok(h, FALSE)
    ELSE ValidateDoc(h, value.n, TRUE)

\* IPAddressField._validate: inet_pton raises TypeError, which is not caught,
\* when the value is not a string
ValidateIP(h, value) ==
    IF value.k = "str" THEN Ok(h, IsIPLiteral(value))
    ELSE Raise(h, "TypeError")

\* field._validate(value)
ValidateValue(h, fd, value) ==
    CASE fd.kind = "bool" -> Ok(h, value.k = "bool")
      [] fd.kind = "int" -> Ok(h, value.k \in {"int", "bool"})
      [] fd.kind = "str" -> Ok(h, value.k = "str" /\ LengthOk(fd, value.n))
      [] fd.kind = "ip" -> ValidateIP(h, value)
      [] fd.kind = "embedded" -> ValidateEmbedded(h, fd, value)
      [] fd.kind = "list" ->
           IF ~IsSequence(h, value) THEN Ok(h, FALSE)
           ELSE IF ~LengthOk(fd, Len(SeqItems(h, value))) THEN Ok(h, FALSE)
           ELSE ValidateItems(h, fd.subfield, SeqItems(h, value))
      [] fd.kind = "mapping" ->
           IF ~IsMapping(h, value) THEN Ok(h, FALSE)
           ELSE ValidateEntries(h, fd, MapItems(h, value), KeysOf(MapItems(h, value)))

\* Document._validate_fields(fields_list, stop_on_required)
ValidateFields(h, d, names, stop_on_required) ==
    LET field == Fields(h[d].type)[Head(names)]
        Rest(r) == IF r.err # NoErr \/ ~r.v THEN r
                   ELSE ValidateFields(r.h, d, Tail(names), stop_on_required)
        Check(g) ==
          IF g.v = None
          THEN IF stop_on_required /\ field.is_required THEN Ok(g.h, FALSE)
               ELSE ValidateFields(g.h, d, Tail(names), stop_on_required)
          ELSE IF field.choices # NoChoices /\ ~InChoices(g.v, field.choices)
          THEN Ok(g.h, FALSE)
          ELSE Rest(ValidateValue(g.h, field, g.v))
    IN  IF names = <<>> THEN Ok(h, TRUE)
        ELSE Check(GetAttr(h, d, Head(names)))

\* the end of Document.validate caching whatever the walk found
CacheAlways(r, d, stop_on_required) ==
    IF r.err = NoErr THEN Ok([r.h EXCEPT ![d].is_valid = TRUE], r.v) ELSE r

\* the end of Document.validate: cache a successful strict walk
CacheValid(r, d, stop_on_required) ==
    IF r.err = NoErr /\ r.v /\ stop_on_required
    THEN Ok([r.h EXCEPT ![d].is_valid = TRUE], TRUE)
    ELSE r

\* Document.validate(stop_on_required)
ValidateDoc(h, d, stop_on_required) ==
    IF stop_on_required /\ h[d].is_valid THEN Ok(h, TRUE)
    ELSE CacheValid(ValidateFields(h, d, FieldOrder(h[d].type), stop_on_required),
                    d, stop_on_required)

\* Document.validate_partial()
ValidatePartial(h, d) == ValidateDoc(h, d, FALSE)

(***************************************************************************)
(* Export (add_view.view).  The nested exports are operator.methodcaller   *)
(* ("to_N") applied to the value: to_N() with its default arguments.       *)
(***************************************************************************)
RECURSIVE View(_, _, _, _, _)
RECURSIVE ViewKeys(_, _, _, _, _)
RECURSIVE LoopCaller(_, _, _, _)
RECURSIVE MappingCaller(_, _, _, _, _)

\* methodcaller("to_N")(value)
MethodCaller(h, N, value) ==
    IF IsDocRef(h, value) /\ HasView(h[value.n].type, N)
    THEN View(h, value.n, N, FALSE, TRUE)
    ELSE Raise(h, "AttributeError")

\* loopcaller(value) over the remaining elements; acc is new_value
LoopCaller(h, N, items, acc) ==
    LET Rest(r) == IF r.err # NoErr THEN r
                   ELSE LoopCaller(r.h, N, Tail(items), Append(acc, r.v))
    IN  IF items = <<>> THEN Ok(h, PyList(acc))
        ELSE Rest(MethodCaller(h, N, Head(items)))

\* mappingcaller(values) over the remaining keys; acc is new_values
MappingCaller(h, N, m, keys, acc) ==
    LET Rest(r) == IF r.err # NoErr THEN r
                   ELSE MappingCaller(r.h, N, m, Tail(keys), DictPut(acc, Head(keys), r.v))
    IN  IF keys = <<>> THEN Ok(h, PyDict(acc))
        ELSE Rest(MethodCaller(h, N, m[Head(keys)]))

\* the conversion add_view chose for the field (the `do` of its todo entry)
Convert(h, fd, N, value) ==
    IF fd.kind = "embedded" THEN MethodCaller(h, N, value)
    ELSE IF fd.kind = "list" /\ fd.subfield.kind = "embedded"
    THEN IF IsSequence(h, value) THEN LoopCaller(h, N, SeqItems(h, value), <<>>)
         ELSE IF IsMapping(h, value) \/ value.k = "str"
         THEN IF (IsMapping(h, value) /\ DOMAIN MapItems(h, value) = {})
                 \/ (value.k = "str" /\ value.n = 0)
              THEN Ok(h, PyList(<<>>))
              ELSE Raise(h, "AttributeError")
         ELSE Raise(h, "TypeError")
    ELSE IF fd.kind = "mapping" /\ fd.valuesubfield.kind = "embedded"
    THEN IF IsMapping(h, value)
         THEN MappingCaller(h, N, MapItems(h, value), KeysOf(MapItems(h, value)), EmptyMap)
         ELSE Raise(h, "AttributeError")
    ELSE Ok(h, value)

RECURSIVE ViewKeysInPlace(_, _, _, _, _)
\* a loop that writes each converted value back into the document
ViewKeysInPlace(h, d, N, keys, acc) ==
    LET Rest(r) == IF r.err # NoErr THEN r
                   ELSE ViewKeysInPlace([r.h EXCEPT ![d].vals[Head(keys)] = r.v], d, N,
                                        Tail(keys), DictPut(acc, Head(keys), r.v))
        Entry(g) == IF g.v = None THEN ViewKeysInPlace(g.h, d, N, Tail(keys), acc)
                    ELSE Rest(Convert(g.h, Fields(h[d].type)[Head(keys)], N, g.v))
    IN  IF keys = <<>> THEN Ok(h, PyDict(acc))
        ELSE Entry(GetAttr(h, d, Head(keys)))

\* the loop of view over todo_specialized; acc is data
ViewKeys(h, d, N, keys, acc) ==
    LET Rest(r) == IF r.err # NoErr THEN r
                   ELSE ViewKeys(r.h, d, N, Tail(keys), DictPut(acc, Head(keys), r.v))
        Entry(g) == IF g.v = None THEN ViewKeys(g.h, d, N, Tail(keys), acc)
                    ELSE Rest(Convert(g.h, Fields(h[d].type)[Head(keys)], N, g.v))
    IN  IF keys = <<>> THEN Ok(h, PyDict(acc))
        ELSE Entry(GetAttr(h, d, Head(keys)))

\* a view that iterates the whole field table, whatever was registered
ViewBodyAllFields(h, d, N, only_modified) ==
    ViewKeys(h, d, N,
             IF only_modified
             THEN SelectSeq(FieldOrder(h[d].type), LAMBDA key : key \in h[d].modified)
             ELSE FieldOrder(h[d].type),
             EmptyMap)

\* a view that exports the unmodified fields too
ViewBodyUnrestricted(h, d, N, only_modified) ==
    ViewKeys(h, d, N, ViewFields(h[d].type, N), EmptyMap)

\* to_N(only_modified, validate) once validation is over
ViewBody(h, d, N, only_modified) ==
    ViewKeys(h, d, N,
             IF only_modified
             THEN SelectSeq(ViewFields(h[d].type, N), LAMBDA key : key \in h[d].modified)
             ELSE ViewFields(h[d].type, N),
             EmptyMap)

\* to_N(only_modified, validate)
View(h, d, N, only_modified, validate) ==
    LET Checked(r) == IF r.err # NoErr THEN r
                      ELSE IF ~r.v THEN Raise(r.h, "ValidationException")
                      ELSE ViewBody(r.h, d, N, only_modified)
    IN  IF validate THEN Checked(ValidateDoc(h, d, TRUE))
        ELSE ViewBody(h, d, N, only_modified)


(***************************************************************************)
(* Attribute write and the proxy operations (src/dico/mutable.py).  Each   *)
(* returns the set of outcomes [h, v, err]; a raised error keeps what was  *)
(* done before it.                                                         *)
(***************************************************************************)
\* Document.__setattr__: a declared field is prepared and notified; any name is
\* then set with object.__setattr__
SetAttribute(h, d, name, value) ==
    LET Tell(r) == { IF c.err # NoErr THEN Raise(c.h, c.err)
                     ELSE Ok([c.h EXCEPT ![d].vals[name] = r.v], None)
                     : c \in Changed(r.h, d, name) }
    IN  IF name \in FieldNames(h[d].type)
        THEN Tell(Prepare(h, Fields(h[d].type)[name], "field", d, name, value, ""))
        ELSE {Ok([h EXCEPT ![d].extra = DictPut(@, name, value)], None)}

\* value._parents = value._parents.union(self._parents)
UnionParents(h, p, value) ==
    IF HasParents(value) THEN [h EXCEPT ![value.n].parents = @ \cup h[p].parents]
    ELSE h

\* index is a valid position of a list of length n (Python also counts from the end)
InRange(index, n) == -n <= index /\ index < n
\* the position a valid Python index denotes, from 1
Pos(index, n) == IF index < 0 THEN n + index + 1 ELSE index + 1
\* the position list.insert puts the value at, from 1
InsertPos(index, n) ==
    IF index < 0 THEN (IF n + index < 0 THEN 1 ELSE n + index + 1)
    ELSE IF index > n THEN n + 1 ELSE index + 1

InsertAt(s, pos, v) == SubSeq(s, 1, pos - 1) \o <<v>> \o SubSeq(s, pos, Len(s))
RemoveAt(s, pos) == SubSeq(s, 1, pos - 1) \o SubSeq(s, pos + 1, Len(s))

\* NotifyList.__setitem__
ListSetItem(h, p, index, value) ==
    { IF c.err # NoErr THEN Raise(c.h, c.err)
      ELSE IF ~InRange(index, Len(c.h[p].items)) THEN Raise(c.h, "IndexError")
      ELSE Ok([c.h EXCEPT ![p].items[Pos(index, Len(c.h[p].items))] = value], None)
      : c \in Notify(UnionParents(h, p, value), UnionParents(h, p, value)[p].parents) }

\* NotifyList.__delitem__
ListDelItem(h, p, index) ==
    { IF c.err # NoErr THEN Raise(c.h, c.err)
      ELSE IF ~InRange(index, Len(c.h[p].items)) THEN Raise(c.h, "IndexError")
      ELSE Ok([c.h EXCEPT ![p].items = RemoveAt(@, Pos(index, Len(@)))], None)
      : c \in Notify(h, h[p].parents) }

\* an insert that tells no owner
ListInsertSilent(h, p, index, value) ==
    {Ok([h EXCEPT ![p].items = InsertAt(@, InsertPos(index, Len(@)), value)], None)}

\* NotifyList.insert
ListInsert(h, p, index, value) ==
    { IF c.err # NoErr THEN Raise(c.h, c.err)
      ELSE Ok([c.h EXCEPT ![p].items = InsertAt(@, InsertPos(index, Len(@)), value)], None)
      : c \in Notify(UnionParents(h, p, value), UnionParents(h, p, value)[p].parents) }

\* MutableSequence.append: self.insert(len(self), value)
ListAppend(h, p, value) == ListInsert(h, p, Len(h[p].items), value)

\* MutableSequence.extend: for v in values: self.append(v)
RECURSIVE ListExtend(_, _, _)
ListExtend(h, p, values) ==
    IF values = <<>> THEN {Ok(h, None)}
    ELSE UNION { IF c.err # NoErr THEN {c} ELSE ListExtend(c.h, p, Tail(values))
                 : c \in ListAppend(h, p, Head(values)) }

\* MutableSequence.pop(index): v = self[index]; del self[index]; return v
ListPop(h, p, index) ==
    IF ~InRange(index, Len(h[p].items)) THEN {Raise(h, "IndexError")}
    ELSE { IF c.err # NoErr THEN c
           ELSE Ok(c.h, h[p].items[Pos(index, Len(h[p].items))])
           : c \in ListDelItem(h, p, index) }

\* proxy + values: NotifyList defines no __add__, nor list an __radd__
ListConcat(h, p, values) == {Raise(h, "TypeError")}

\* NotifyDict.__setitem__
DictSetItem(h, p, key, value) ==
    { IF c.err # NoErr THEN Raise(c.h, c.err)
      ELSE Ok([c.h EXCEPT ![p].map = DictPut(@, key, value)], None)
      : c \in Notify(UnionParents(h, p, value), UnionParents(h, p, value)[p].parents) }

\* NotifyDict.__delitem__
DictDelItem(h, p, key) ==
    { IF c.err # NoErr THEN Raise(c.h, c.err)
      ELSE IF key \notin DOMAIN c.h[p].map THEN Raise(c.h, "KeyError")
      ELSE Ok([c.h EXCEPT ![p].map = DictDel(@, key)], None)
      : c \in Notify(h, h[p].parents) }

(***************************************************************************)
(* The inputs the operations are tried on.                                 *)
(***************************************************************************)
EmptyDict == PyDict(EmptyMap)
\* {'consumer_secret': 'a'}
GoodToken == PyDict([consumer_secret |-> StrV(1)])
\* {'token': {}}: a user whose token lacks its required field
BadUser == PyDict([token |-> EmptyDict])
\* {'token': {...}}
GoodUser == PyDict([token |-> GoodToken])

\* the documents offered as a value where a `type` is expected inside owner d:
\* the instances of the type, and the owner itself
DocCandidates(h, type, owners) ==
    {Ref(o) : o \in {x \in Docs(h) : h[x].type = type} \cup owners}

FieldInputs(h, d, name) ==
    LET fd == Fields(h[d].type)[name]
    IN  CASE fd.kind = "str" -> {StrV(1), StrV(3), None}
          [] fd.kind = "bool" -> {BoolV(0), IntV(5)}
          [] fd.kind = "int" -> {IntV(3), IntV(5), StrV(1)}
          [] fd.kind = "ip" -> {StrV(7), IntV(5)}
          [] fd.kind = "embedded" /\ fd.field_type = "OAuthToken" ->
               {EmptyDict, GoodToken, IntV(5)} \cup DocCandidates(h, "OAuthToken", {d})
          [] fd.kind = "embedded" /\ fd.field_type = "User" ->
               {BadUser} \cup DocCandidates(h, "User", {d})
          [] fd.kind = "list" /\ fd.subfield.kind = "embedded" ->
               {PyList(<<GoodToken>>), PyList(<<IntV(5)>>)}
               \cup {PyList(<<r>>) : r \in DocCandidates(h, "OAuthToken", {})}
          [] fd.kind = "list" /\ fd.subfield.kind = "int" ->
               {PyList(<<>>), PyList(<<IntV(1), IntV(1), IntV(1)>>)}
          [] fd.kind = "list" /\ fd.subfield.kind = "list" ->
               {PyList(<<>>), PyList(<<PyList(<<IntV(1)>>)>>)}
          [] fd.kind = "mapping" ->
               {EmptyDict} \cup {PyDict([k1 |-> r]) : r \in DocCandidates(h, "OAuthToken", {})}

\* the values written to an attribute, declared or not
AttrInputs(h, d, name) ==
    IF name \in FieldNames(h[d].type) THEN FieldInputs(h, d, name) ELSE {IntV(2)}

\* the owners a proxy is linked to
OwnersOf(h, p) == {q[1] : q \in h[p].parents}

\* the plain list put into the proxy of a field that is a list of lists
RowInputs(h, p) ==
    IF \E q \in h[p].parents :
          /\ q[3] = "field"
          /\ Fields(h[q[1]].type)[q[2]].kind = "list"
          /\ Fields(h[q[1]].type)[q[2]].subfield.kind = "list"
    THEN {PyList(<<IntV(1)>>)}
    ELSE {}

\* the elements put into a proxy: tokens, an owner of the proxy, a number, a row
ElementInputs(h, p) ==
    {IntV(1)} \cup DocCandidates(h, "OAuthToken", OwnersOf(h, p)) \cup RowInputs(h, p)

\* the raw mappings a document is constructed or imported from
MappingInputs(h, type) ==
    CASE type = "OAuthToken" -> {EmptyMap, [consumer_secret |-> StrV(1)]}
      [] type = "User" ->
           {[id |-> IntV(5), bad_name |-> StrV(1), token |-> None], [token |-> EmptyDict]}
           \cup {[token |-> r, tokens |-> PyList(<<r>>)] : r \in DocCandidates(h, "OAuthToken", {})}
      [] type = "Group" ->
           {[ip |-> IntV(5)],
            [user |-> GoodUser, friends |-> PyList(<<IntV(1)>>), tags |-> PyDict([k1 |-> GoodToken])]}
           \cup {[user |-> r] : r \in DocCandidates(h, "User", {})}

\* the indexes tried on a list of length n: the first, the last, one past the end
IndexInputs(n) == {0, -1, n}

\* the calls of to_N tried: <<N, only_modified, validate>>
ViewCalls ==
    { <<"dict", FALSE, TRUE>>, <<"dict", FALSE, FALSE>>, <<"dict", TRUE, TRUE>>,
      <<"public", FALSE, TRUE>>, <<"public", TRUE, FALSE>>, <<"short", FALSE, FALSE>> }

(***************************************************************************)
(* The state machine.  `last` is the operation just performed: its name,   *)
(* the object it was called on, the field, key or pipeline name it was     *)
(* given, the mapping it was given (constructions and imports), what it    *)
(* returned and the error it raised.                                       *)
(***************************************************************************)
Done(op, obj, name, arg, r) ==
    [op |-> op, obj |-> obj, name |-> name, arg |-> arg, ret |-> r.v, raised |-> r.err]

\* the initial constructions: each is a list of Document.__init__ calls
InitCalls ==
    { <<>>,
      \* a token shared by two users, held directly and in a list
      << [type |-> "OAuthToken", values |-> [consumer_secret |-> StrV(1)]],
         [type |-> "User", values |-> [token |-> Ref(1)]],
         [type |-> "User", values |-> [tokens |-> PyList(<<Ref(1)>>)]] >>,
      \* a group built from nested raw mappings
      << [type |-> "Group",
          values |-> [user |-> GoodUser, friends |-> PyList(<<IntV(1)>>),
                      tags |-> PyDict([k1 |-> GoodToken])]] >>,
      \* a group whose user's token lacks its required field
      << [type |-> "Group", values |-> [user |-> BadUser]] >> }

RECURSIVE ConstructAll(_, _)
ConstructAll(h, calls) ==
    IF calls = <<>> THEN h
    ELSE ConstructAll(Construct(h, Head(calls).type, Head(calls).values).h, Tail(calls))

Init ==
    /\ classes = SchemaClasses
    /\ \E calls \in InitCalls : heap = ConstructAll(<<>>, calls)
    /\ last = [op |-> "init", obj |-> 0, name |-> "", arg |-> None, ret |-> None,
               raised |-> NoErr]
    /\ nops = 0
    /\ limit = MaxOps

StepWith(r, op, obj, name, arg) ==
    /\ heap' = r.h
    /\ last' = Done(op, obj, name, arg, r)
    /\ nops' = nops + 1
    /\ classes' = classes
    /\ limit' = limit

Step(r, op, obj, name) == StepWith(r, op, obj, name, None)

\* the operations performed are counted, up to the bound of the behaviour
CanStep == nops < limit

\* an operation that returns the document it created
Created(r, op, name, arg) == StepWith(Ok(r.h, r.v), op, r.v.n, name, PyDict(arg))

\* T(**values)
New ==
    /\ CanStep
    /\ \E type \in Types : \E values \in MappingInputs(heap, type) :
           Created(Construct(heap, type, values), "new", "dict", values)

\* T.from_N(**kwargs)
FromN ==
    /\ CanStep
    /\ \E type \in Types : \E N \in PipelineNames : \E kwargs \in MappingInputs(heap, type) :
           /\ HasSource(type, N)
           /\ Created(FromSource(heap, type, N, kwargs), "from", N, kwargs)

\* d.update_from_N(data, changed)
UpdateFromN ==
    /\ CanStep
    /\ \E d \in Docs(heap) : \E N \in PipelineNames : \E changed \in BOOLEAN :
         \E data \in MappingInputs(heap, heap[d].type) :
           /\ HasSource(heap[d].type, N)
           /\ \E c \in Update(heap, d, N, data, changed, SourceFields(heap[d].type, N)) :
                StepWith([h |-> c.h, v |-> Ref(d), err |-> c.err],
                         IF changed THEN "update_changed" ELSE "update", d, N,
                         PyDict(data))

\* d.name = value
SetAttr ==
    /\ CanStep
    /\ \E d \in Docs(heap) : \E name \in FieldNames(heap[d].type) \cup UndeclaredNames :
         \E value \in AttrInputs(heap, d, name) :
           \E r \in SetAttribute(heap, d, name, value) :
               Step(r, IF name \in FieldNames(heap[d].type) THEN "setattr"
                       ELSE "setattr_undeclared", d, name)

\* d.name
ReadAttr ==
    /\ CanStep
    /\ \E d \in Docs(heap) : \E name \in FieldNames(heap[d].type) \cup UndeclaredNames :
           Step(ReadAttribute(heap, d, name),
                IF name \in FieldNames(heap[d].type) THEN "getattr"
                ELSE "getattr_undeclared", d, name)

BoolRet(r) == IF r.err = NoErr THEN [r EXCEPT !.v = BoolV(IF r.v THEN 1 ELSE 0)] ELSE r

\* d.validate()
Validate ==
    /\ CanStep
    /\ \E d \in Docs(heap) : Step(BoolRet(ValidateDoc(heap, d, TRUE)), "validate", d, "")

\* d.validate_partial()
ValidatePartialOp ==
    /\ CanStep
    /\ \E d \in Docs(heap) : Step(BoolRet(ValidatePartial(heap, d)), "validate_partial", d, "")

\* d.to_N(only_modified, validate)
ToN ==
    /\ CanStep
    /\ \E d \in Docs(heap) : \E call \in ViewCalls :
           /\ HasView(heap[d].type, call[1])
           /\ Step(View(heap, d, call[1], call[2], call[3]),
                   IF call[3] THEN (IF call[2] THEN "to_modified" ELSE "to")
                   ELSE (IF call[2] THEN "to_modified_novalidate" ELSE "to_novalidate"),
                   d, call[1])

\* p[index] = value
ListSetItemOp ==
    /\ CanStep
    /\ \E p \in Lists(heap) : \E index \in IndexInputs(Len(heap[p].items)) :
         \E value \in ElementInputs(heap, p) :
           \E r \in ListSetItem(heap, p, index, value) : Step(r, "list_setitem", p, "")

\* del p[index]
ListDelItemOp ==
    /\ CanStep
    /\ \E p \in Lists(heap) : \E index \in IndexInputs(Len(heap[p].items)) :
           \E r \in ListDelItem(heap, p, index) : Step(r, "list_delitem", p, "")

\* p.insert(index, value)
ListInsertOp ==
    /\ CanStep
    /\ \E p \in Lists(heap) : \E index \in IndexInputs(Len(heap[p].items)) :
         \E value \in ElementInputs(heap, p) :
           \E r \in ListInsert(heap, p, index, value) : Step(r, "list_insert", p, "")

\* p.append(value)
ListAppendOp ==
    /\ CanStep
    /\ \E p \in Lists(heap) : \E value \in ElementInputs(heap, p) :
           \E r \in ListAppend(heap, p, value) : Step(r, "list_append", p, "")

\* p.extend(values)
ListExtendOp ==
    /\ CanStep
    /\ \E p \in Lists(heap) : \E value \in ElementInputs(heap, p) :
           \E r \in ListExtend(heap, p, <<value, value>>) : Step(r, "list_extend", p, "")

\* p.pop(index)
ListPopOp ==
    /\ CanStep
    /\ \E p \in Lists(heap) : \E index \in IndexInputs(Len(heap[p].items)) :
           \E r \in ListPop(heap, p, index) : Step(r, "list_pop", p, "")

\* p + values
ListConcatOp ==
    /\ CanStep
    /\ \E p \in Lists(heap) : \E value \in ElementInputs(heap, p) :
           \E r \in ListConcat(heap, p, <<value>>) : Step(r, "list_concat", p, "")

\* p[key] = value
DictSetItemOp ==
    /\ CanStep
    /\ \E p \in Dicts(heap) : \E key \in Keys : \E value \in ElementInputs(heap, p) :
           \E r \in DictSetItem(heap, p, key, value) : Step(r, "dict_setitem", p, key)

\* del p[key]
DictDelItemOp ==
    /\ CanStep
    /\ \E p \in Dicts(heap) : \E key \in Keys :
           \E r \in DictDelItem(heap, p, key) : Step(r, "dict_delitem", p, key)

Next ==
    \/ New
    \/ FromN
    \/ UpdateFromN
    \/ SetAttr
    \/ ReadAttr
    \/ Validate
    \/ ValidatePartialOp
    \/ ToN
    \/ ListSetItemOp
    \/ ListDelItemOp
    \/ ListInsertOp
    \/ ListAppendOp
    \/ ListExtendOp
    \/ ListPopOp
    \/ ListConcatOp
    \/ DictSetItemOp
    \/ DictDelItemOp

Spec == Init /\ [][Next]_vars

(***************************************************************************)
(* The state machine of the classes: class statements (compiled by         *)
(* DocumentMetaClass.__new__) and registrations of pipelines, starting     *)
(* from the class Document alone.  No instance is built.                   *)
(***************************************************************************)
\* the names the declared classes take, in the order of their declaration
ClassOrder == <<"BaseDocument", "Sub", "Account">>

RECURSIVE Inherits(_, _, _)
\* issubclass(a, b) for a # b
Inherits(cl, a, b) ==
    \E i \in DOMAIN cl[a].bases : cl[a].bases[i] = b \/ Inherits(cl, cl[a].bases[i], b)

\* the bases a class is declared with: Document, a declared class, or two
\* declared classes of which neither inherits from the other
BasesInputs(cl) ==
    {<<Root>>}
    \cup {<<c>> : c \in DOMAIN cl \ {Root}}
    \cup {<<c[1], c[2]>> : c \in {p \in (DOMAIN cl \ {Root}) \X (DOMAIN cl \ {Root}) :
                                    /\ p[1] # p[2]
                                    /\ ~Inherits(cl, p[1], p[2])
                                    /\ ~Inherits(cl, p[2], p[1])}}

\* the attributes of a class body: fields, and an attribute that is no field
AttrsInputs(cl) ==
    {EmptyMap,
     [id |-> IntegerField(FALSE, None, FALSE, NoChoices)],
     [id |-> StringField(TRUE, 2), name |-> StringField(FALSE, NoLen)],
     [truc |-> IntV(2), name |-> StringField(FALSE, NoLen)]}
    \cup {[sub |-> EmbeddedDocumentField(c)] : c \in DOMAIN cl \ {Root}}
    \cup {[tokens |-> ListField(EmbeddedDocumentField(c), FALSE, NoLen, NoLen)] :
             c \in DOMAIN cl \ {Root}}

\* the keep_fields and remove_fields arguments tried
KeepInputs == {None, PyList(<<"id">>), PyList(<<"name", "sub">>)}
RemoveInputs == {None, PyList(<<"id">>)}

InitClass ==
    /\ classes = RootClasses
    /\ heap = <<>>
    /\ last = [op |-> "init", obj |-> 0, name |-> "", arg |-> None, ret |-> None,
               raised |-> NoErr]
    /\ nops = 0
    /\ limit = MaxClassOps

ClassStep(cl, op, c, arg) ==
    /\ classes' = cl
    /\ last' = [op |-> op, obj |-> 0, name |-> c, arg |-> arg, ret |-> None,
                raised |-> NoErr]
    /\ nops' = nops + 1
    /\ heap' = heap
    /\ limit' = limit

CanDeclare == nops < limit /\ Cardinality(DOMAIN classes) <= Len(ClassOrder)

\* class name(bases): attrs
Declare ==
    /\ CanDeclare
    /\ \E bases \in BasesInputs(classes) : \E attrs \in AttrsInputs(classes) :
           ClassStep(Compile(classes, ClassOrder[Cardinality(DOMAIN classes)], bases, attrs),
                     "class", ClassOrder[Cardinality(DOMAIN classes)],
                     [bases |-> bases, attrs |-> attrs])

\* c.add_source(N, keep_fields, remove_fields)
AddSourceOp ==
    /\ nops < limit
    /\ \E c \in DOMAIN classes : \E N \in PipelineNames :
         \E keep \in KeepInputs : \E remove \in RemoveInputs :
           ClassStep(AddSource(classes, c, N, keep, remove), "add_source", c,
                     [N |-> N, keep_fields |-> keep, remove_fields |-> remove])

\* c.add_view(N, keep_fields, remove_fields)
AddViewOp ==
    /\ nops < limit
    /\ \E c \in DOMAIN classes : \E N \in PipelineNames :
         \E keep \in KeepInputs : \E remove \in RemoveInputs :
           ClassStep(AddView(classes, c, N, keep, remove), "add_view", c,
                     [N |-> N, keep_fields |-> keep, remove_fields |-> remove])

NextClass ==
    \/ Declare
    \/ AddSourceOp
    \/ AddViewOp

SpecClass == InitClass /\ [][NextClass]_vars

(***************************************************************************)
(* The state machine of a bounded list: a Group, whose friends are a list  *)
(* of one to two integers, is constructed without friends, with one or     *)
(* with two, and then written to, mutated through the proxy of its list    *)
(* and validated.                                                          *)
(***************************************************************************)
\* the friends the group is constructed with (None: the keyword is absent)
FriendsInits == {None, PyList(<<IntV(1)>>), PyList(<<IntV(1), IntV(1)>>)}

InitList ==
    /\ classes = SchemaClasses
    /\ \E friends \in FriendsInits :
         heap = Construct(<<>>, "Group",
                          IF friends = None THEN EmptyMap ELSE [friends |-> friends]).h
    /\ last = [op |-> "init", obj |-> 0, name |-> "", arg |-> None, ret |-> None,
               raised |-> NoErr]
    /\ nops = 0
    /\ limit = MaxListOps

NextList ==
    \/ SetAttr
    \/ Validate
    \/ ListSetItemOp
    \/ ListDelItemOp
    \/ ListInsertOp
    \/ ListAppendOp
    \/ ListPopOp

SpecList == InitList /\ [][NextList]_vars

(***************************************************************************)
(* The state machine of a list of lists: one Matrix, constructed without   *)
(* rows or with one row, and then written to, read, validated and mutated  *)
(* through the proxy of its rows and through the rows themselves.          *)
(***************************************************************************)
\* the classes, and class Matrix(Document) declared after them
MatrixClasses == Compile(SchemaClasses, "Matrix", <<Root>>, Fields("Matrix"))

\* the rows the matrix is constructed with (None: the keyword is absent)
RowsInits == {None, PyList(<<PyList(<<IntV(1)>>)>>)}

\* what is appended to a row
ItemInputs == {IntV(1), StrV(1)}

InitNested ==
    /\ classes = MatrixClasses
    /\ \E rows \in RowsInits :
         heap = Construct(<<>>, "Matrix",
                          IF rows = None THEN EmptyMap ELSE [rows |-> rows]).h
    /\ last = [op |-> "init", obj |-> 0, name |-> "", arg |-> None, ret |-> None,
               raised |-> NoErr]
    /\ nops = 0
    /\ limit = MaxNestedOps

\* p[index].append(value) where p[index] is a plain list: NotifyList.__getitem__
\* returns the element itself, and list.append tells nobody
ItemAppendOp ==
    /\ CanStep
    /\ \E p \in Lists(heap) : \E i \in DOMAIN heap[p].items : \E value \in ItemInputs :
         /\ heap[p].items[i].k = "list"
         /\ Step(Ok([heap EXCEPT ![p].items[i] = PyList(Append(@.s, value))], None),
                 "item_append", p, "")

NextNested ==
    \/ SetAttr
    \/ ReadAttr
    \/ Validate
    \/ ListAppendOp
    \/ ListSetItemOp
    \/ ListPopOp
    \/ ItemAppendOp

SpecNested == InitNested /\ [][NextNested]_vars

(***************************************************************************)
(* The state machine of a pair: two User instances built apart, one with   *)
(* its own token in its list and one with nothing, and then written to,    *)
(* read, validated and mutated through the proxies of their lists; an      *)
(* instance may be put into the list of the other and taken out again.     *)
(***************************************************************************)
\* User(tokens=[{'consumer_secret': 'a'}]) and User()
PairCalls ==
    << [type |-> "User", values |-> [tokens |-> PyList(<<GoodToken>>)]],
       [type |-> "User", values |-> EmptyMap] >>

\* the values written to a field of an instance of the pair
PairInputs(name) ==
    CASE name = "id" -> {IntV(3)}
      [] name = "token" -> {GoodToken}
      [] name = "tokens" -> {PyList(<<>>)}

InitPair ==
    /\ classes = SchemaClasses
    /\ heap = ConstructAll(<<>>, PairCalls)
    /\ last = [op |-> "init", obj |-> 0, name |-> "", arg |-> None, ret |-> None,
               raised |-> NoErr]
    /\ nops = 0
    /\ limit = MaxPairOps

\* d.name = value on an instance of the pair
PairSetAttr ==
    /\ CanStep
    /\ \E d \in Docs(heap) : \E name \in FieldNames(heap[d].type) :
         /\ heap[d].type = "User"
         /\ \E value \in PairInputs(name) :
              \E r \in SetAttribute(heap, d, name, value) : Step(r, "setattr", d, name)

\* p.append(b): b another instance of the type of an owner of p
PeerAppendOp ==
    /\ CanStep
    /\ \E p \in Lists(heap) : \E b \in Docs(heap) :
         /\ b \notin OwnersOf(heap, p)
         /\ \E o \in OwnersOf(heap, p) : heap[o].type = heap[b].type
         /\ \E r \in ListAppend(heap, p, Ref(b)) : Step(r, "list_append", p, "")

\* p.pop()
PairPopOp ==
    /\ CanStep
    /\ \E p \in Lists(heap) : \E r \in ListPop(heap, p, -1) : Step(r, "list_pop", p, "")

NextPair ==
    \/ PairSetAttr
    \/ ReadAttr
    \/ Validate
    \/ PeerAppendOp
    \/ PairPopOp

SpecPair == InitPair /\ [][NextPair]_vars

(***************************************************************************)
(* Properties.  Marked says the notification reached an owner: the field   *)
(* name is in _modified_fields and _is_valid is False.                     *)
(***************************************************************************)
Marked(h, o, f) == f \in h[o].modified /\ ~h[o].is_valid

RECURSIVE OwnerLinks(_, _, _)
\* the <<owner, field name>> pairs of every backlink met going up from frontier
OwnerLinks(h, frontier, seen) ==
    LET links == UNION {{<<p[1], p[2]>> : p \in h[x].parents} : x \in frontier}
        next == {q[1] : q \in links} \ seen
    IN  IF next = {} THEN links
        ELSE links \cup OwnerLinks(h, next, seen \cup next)

\* C1: after an attribute write d.f = value that returns, f is in d's modified
\* set and d's cache is dirty, and so is, for every backlink met going up from d
\* at any depth, the backlink's field name in the backlink's owner.
C1_WriteMarksEveryOwner ==
    (last.op = "setattr" /\ last.raised = NoErr) =>
        /\ Marked(heap, last.obj, last.name)
        /\ \A q \in OwnerLinks(heap, {last.obj}, {last.obj}) : Marked(heap, q[1], q[2])

\* a write on a document owned by a document that is itself owned
C1_Witness ==
    /\ last.op = "setattr"
    /\ last.raised = NoErr
    /\ \E p \in heap[last.obj].parents : heap[p[1]].parents # {}

\* owner o holds document t through its field f as a value of the declared type:
\* directly, or as an element of the field's list or mapping proxy
Holds(h, o, f, t) ==
    LET v == h[o].vals[f]
        fd == Fields(h[o].type)[f]
    IN  /\ v.k = "ref"
        /\ \/ fd.kind = "embedded" /\ v.n = t /\ IsInstance(h, v, fd.field_type)
           \/ /\ fd.kind = "list" /\ h[v.n].kind = "list"
              /\ fd.subfield.kind = "embedded"
              /\ IsInstance(h, Ref(t), fd.subfield.field_type)
              /\ \E i \in DOMAIN h[v.n].items : h[v.n].items[i] = Ref(t)
           \/ /\ fd.kind = "mapping" /\ h[v.n].kind = "dict"
              /\ fd.valuesubfield.kind = "embedded"
              /\ IsInstance(h, Ref(t), fd.valuesubfield.field_type)
              /\ \E key \in DOMAIN h[v.n].map : h[v.n].map[key] = Ref(t)

AllFieldNames == UNION {FieldNames(type) : type \in Types}

\* the <<owner, field name>> pairs that hold t
Holders(h, t) ==
    {q \in Docs(h) \X AllFieldNames :
        q[2] \in FieldNames(h[q[1]].type) /\ Holds(h, q[1], q[2], t)}

\* C5: after an attribute write that returns on a document, every owner that
\* holds the document (directly or in a proxy, whatever the number of owners and
\* fields) has the holding field's name in its modified set and a dirty cache;
\* and notifying again changes nothing: the notification is idempotent.
C5_SharedWriteMarksEveryHolder ==
    (last.op = "setattr" /\ last.raised = NoErr) =>
        /\ \A q \in Holders(heap, last.obj) : Marked(heap, q[1], q[2])
        /\ Changed(heap, last.obj, last.name) = {[h |-> heap, err |-> NoErr]}

\* a write on a document that two different owners hold
C5_Witness ==
    /\ last.op = "setattr"
    /\ last.raised = NoErr
    /\ \E q1, q2 \in Holders(heap, last.obj) : q1[1] # q2[1]

\* every document's _is_valid reset: what a walk that trusts no cache sees
ClearCaches(h) ==
    [o \in DOMAIN h |->
        IF h[o].kind = "doc" THEN [h[o] EXCEPT !.is_valid = FALSE] ELSE h[o]]

\* a fresh strict walk of all the fields of d
FreshWalk(h, d) == ValidateFields(ClearCaches(h), d, FieldOrder(h[d].type), TRUE)

\* the call returned b
Gives(r, b) == r.err = NoErr /\ r.v = b

\* the two calls raised the same error, or returned the same value
SameOutcome(a, b) == a.err = b.err /\ (a.err = NoErr => a.v = b.v)

\* C2: in every reachable state, for every document, strict validate() returns
\* exactly what a fresh walk of all its fields returns (no stale validity cache).
C2_NoStaleCache ==
    \A d \in Docs(heap) :
        SameOutcome(ValidateDoc(heap, d, TRUE), FreshWalk(heap, d))

\* a document whose cache says valid while a fresh walk finds a bad value
C2_StaleState ==
    \E d \in Docs(heap) :
        /\ heap[d].is_valid
        /\ Gives(FreshWalk(heap, d), FALSE)
        /\ last.op = "update"
        /\ last.obj = d

\* the operations in which strict validate() may run on some document
ValidatingOps ==
    {"validate", "validate_partial", "to", "to_modified", "to_novalidate",
     "to_modified_novalidate"}

\* one step of the validity cache of the documents that exist before it
CacheStep ==
    /\ \A d \in Docs(heap) :
         \* dirty -> valid only in a step where strict validate() of d runs and
         \* returns true
         /\ (~heap[d].is_valid /\ heap'[d].is_valid) =>
                /\ last'.op \in ValidatingOps
                /\ ~(last'.op = "validate_partial" /\ last'.obj = d)
                /\ Gives(ValidateDoc(heap, d, TRUE), TRUE)
         \* a strict validate() of d that returns false leaves d dirty
         /\ (last'.op = "validate" /\ last'.obj = d /\ last'.ret = BoolV(0)) =>
                (~heap[d].is_valid /\ ~heap'[d].is_valid)
         \* validate_partial() of d and attribute reads leave d's cache as it is
         /\ ((last'.op = "validate_partial" /\ last'.obj = d) \/ last'.op = "getattr") =>
                heap'[d].is_valid = heap[d].is_valid
         \* with a valid cache, strict validate() returns true and walks nothing
         /\ (last'.op = "validate" /\ last'.obj = d /\ heap[d].is_valid) =>
                (last'.ret = BoolV(1) /\ last'.raised = NoErr /\ heap' = heap)
    \* a document created by the step starts dirty
    /\ \A o \in (DOMAIN heap') \ (DOMAIN heap) :
         heap'[o].kind = "doc" => ~heap'[o].is_valid

\* C3: the validity cache of a document starts dirty; it becomes valid only by a
\* strict validate() of the document that returns true; a strict validate()
\* that returns false, validate_partial() and attribute reads leave it as it
\* was; a valid cache makes strict validate() return true without a walk.
C3_CacheStateMachine == [][CacheStep]_vars

\* validate_partial() called on a document whose cache is valid
C3_Witness ==
    /\ last.op = "validate_partial"
    /\ heap[last.obj].is_valid
    /\ last.ret = BoolV(1)

\* the objects an object refers to: a document's attribute values, a proxy's
\* elements
Children(h, o) ==
    CASE h[o].kind = "doc" ->
           {h[o].vals[f].n : f \in {g \in DOMAIN h[o].vals : h[o].vals[g].k = "ref"}}
      [] h[o].kind = "list" ->
           {h[o].items[i].n : i \in {j \in DOMAIN h[o].items : h[o].items[j].k = "ref"}}
      [] h[o].kind = "dict" ->
           {h[o].map[x].n : x \in {y \in DOMAIN h[o].map : h[o].map[y].k = "ref"}}

RECURSIVE Reach(_, _, _)
\* the objects reached from frontier, frontier included
Reach(h, frontier, seen) ==
    LET next == UNION {Children(h, o) : o \in frontier} \ seen
    IN  IF next = {} THEN seen ELSE Reach(h, next, seen \cup next)

\* the fields of owner o under which object x is found, at any depth
HeldVia(h, o, x) ==
    {f \in FieldNames(h[o].type) :
        h[o].vals[f].k = "ref" /\ x \in Reach(h, {h[o].vals[f].n}, {h[o].vals[f].n})}

RECURSIVE HoldsDeep(_, _, _, _)
\* x is the proxy of field f of o, or a document that o holds through f as a
\* value of the declared type, at any depth
HoldsDeep(h, o, f, x) ==
    \/ /\ h[o].vals[f] = Ref(x)
       /\ \/ Fields(h[o].type)[f].kind = "list" /\ h[x].kind = "list"
          \/ Fields(h[o].type)[f].kind = "mapping" /\ h[x].kind = "dict"
    \/ Holds(h, o, f, x)
    \/ \E y \in Docs(h) :
         /\ Holds(h, o, f, y)
         /\ \E g \in FieldNames(h[y].type) : HoldsDeep(h, y, g, x)

MutationOps ==
    {"setattr", "list_setitem", "list_delitem", "list_insert", "list_append",
     "list_extend", "list_pop", "list_concat", "dict_setitem", "dict_delitem"}

\* one step of the modified sets
ModifiedStep ==
    \* construction and from_N: the documents created have an empty modified
    \* set, the others keep theirs
    /\ last'.op \in {"new", "from"} =>
         /\ \A o \in (DOMAIN heap') \ (DOMAIN heap) :
              heap'[o].kind = "doc" => heap'[o].modified = {}
         /\ \A o \in Docs(heap) : heap'[o].modified = heap[o].modified
    \* a mutation of object x = last'.obj: a document gains the names of the
    \* fields under which it holds x (the written name when it is x), no other
    /\ last'.op \in MutationOps =>
         \A o \in Docs(heap) :
           /\ (heap'[o].modified \ heap[o].modified) \subseteq
                 ((IF o = last'.obj THEN {last'.name} ELSE {})
                  \cup HeldVia(heap, o, last'.obj))
           /\ last'.raised = NoErr =>
                /\ o = last'.obj => last'.name \in heap'[o].modified
                /\ \A f \in FieldNames(heap[o].type) :
                     HoldsDeep(heap, o, f, last'.obj) => f \in heap'[o].modified

\* C4: construction and from_N leave the modified set of every document they
\* create empty; a later attribute write or proxy mutation adds to a document's
\* modified set the name of the field under which it holds the mutated object,
\* and no other name.
C4_ModifiedTracksHoldingField == [][ModifiedStep]_vars

\* an attribute write marked field f of a document that does not hold the written
\* document under f: the written document kept the backlink of a former owner
C4_StaleMarkState ==
    /\ last.op = "setattr"
    /\ last.raised = NoErr
    /\ \E q \in OwnerLinks(heap, {last.obj}, {last.obj}) :
         /\ q[1] # last.obj
         /\ heap[q[1]].kind = "doc"
         /\ q[2] \in heap[q[1]].modified
         /\ q[2] \notin HeldVia(heap, q[1], last.obj)

ProxyOps ==
    {"list_setitem", "list_delitem", "list_insert", "list_append", "list_extend",
     "list_pop", "list_concat", "dict_setitem", "dict_delitem"}

\* C6: after a mutating operation of a proxy (index or key assignment, deletion,
\* insert, append, extend, pop, concatenation) performed on a freshly built
\* instance, every owner of the proxy has the holding field's name in its
\* modified set and a dirty cache, and still holds the same proxy.
C6_EveryProxyOpMarksOwners ==
    (nops = 1 /\ last.op \in ProxyOps /\ (last.raised = NoErr \/ last.op = "list_concat")) =>
        \A p \in heap[last.obj].parents :
            Marked(heap, p[1], p[2]) /\ heap[p[1]].vals[p[2]] = Ref(last.obj)

\* C7: to_N with validation raises ValidationException exactly when strict
\* validate() is false, then returning nothing, and returns the mapping
\* otherwise; validate() and validate_partial() raise nothing and return a bool.
C7_ExportRaisesIffInvalid ==
    /\ last.op \in {"to", "to_modified"} =>
         /\ last.raised \in {NoErr, "ValidationException"}
         /\ last.raised = "ValidationException" <=>
              Gives(ValidateDoc(heap, last.obj, TRUE), FALSE)
         /\ last.raised = NoErr => last.ret.k = "dict"
         /\ last.raised # NoErr => last.ret = None
    /\ last.op \in {"validate", "validate_partial"} =>
         (last.raised = NoErr /\ last.ret.k = "bool")

\* C8: to_N(validate=False) never raises ValidationException, whatever the
\* state of the document and of the documents embedded in it.
C8_NoValidateNeverRaises ==
    last.op \in {"to_novalidate", "to_modified_novalidate"} =>
        last.raised # "ValidationException"

\* the value validation sees for a field: the instance attribute, else the default
EffectiveValue(h, d, f) ==
    IF h[d].vals[f] = Unset THEN Fields(h[d].type)[f].default ELSE h[d].vals[f]

\* a required field with no value and no default
MissingRequired(h, d) ==
    \E f \in FieldNames(h[d].type) :
        /\ Fields(h[d].type)[f].is_required
        /\ Fields(h[d].type)[f].default = None
        /\ h[d].vals[f] \in {Unset, None}

\* the field, taken alone, passes: absent and not required, or present, among
\* the choices and of the right format
FieldPasses(h, d, f) ==
    LET fd == Fields(h[d].type)[f]
        v == EffectiveValue(h, d, f)
    IN  IF v = None THEN ~fd.is_required
        ELSE /\ fd.choices = NoChoices \/ InChoices(v, fd.choices)
             /\ Gives(ValidateValue(h, fd, v), TRUE)

\* C9: strict validate() is false for a document with a required field that has
\* no value and no default; it is true when every field taken alone passes, a
\* required field without a value passing by its default (a value, a factory,
\* the automatic empty list or mapping).
C9_RequiredAndDefaults ==
    \A d \in Docs(heap) :
        LET r == ValidateDoc(heap, d, TRUE)
        IN  r.err = NoErr =>
              /\ MissingRequired(heap, d) => r.v = FALSE
              /\ (\A f \in FieldNames(heap[d].type) : FieldPasses(heap, d, f)) => r.v = TRUE

\* a user valid with its required id and tokens left to their defaults, beside
\* a document that lacks a required field
C9_Witness ==
    /\ \E d \in Docs(heap) :
         /\ heap[d].type = "User"
         /\ heap[d].vals["id"] = Unset
         /\ heap[d].vals["tokens"] = Unset
         /\ Gives(ValidateDoc(heap, d, TRUE), TRUE)
    /\ \E e \in Docs(heap) :
         /\ MissingRequired(heap, e)
         /\ Gives(ValidateDoc(heap, e, TRUE), FALSE)

RECURSIVE PartialDocOk(_, _)
RECURSIVE FormatOk(_, _, _)

\* the value is of the field's format, an embedded document being judged on its
\* present values only
FormatOk(h, fd, v) ==
    CASE fd.kind = "bool" -> v.k = "bool"
      [] fd.kind = "int" -> v.k \in {"int", "bool"}
      [] fd.kind = "str" -> v.k = "str" /\ LengthOk(fd, v.n)
      [] fd.kind = "ip" -> v.k = "str" /\ IsIPLiteral(v)
      [] fd.kind = "embedded" -> IsInstance(h, v, fd.field_type) /\ PartialDocOk(h, v.n)
      [] fd.kind = "list" ->
           /\ IsSequence(h, v)
           /\ LengthOk(fd, Len(SeqItems(h, v)))
           /\ \A i \in DOMAIN SeqItems(h, v) : FormatOk(h, fd.subfield, SeqItems(h, v)[i])
      [] fd.kind = "mapping" ->
           /\ IsMapping(h, v)
           /\ \A key \in DOMAIN MapItems(h, v) :
                /\ FormatOk(h, fd.keysubfield, KeyValue(key))
                /\ FormatOk(h, fd.valuesubfield, MapItems(h, v)[key])

\* no present value of d fails its choices or its format
PartialDocOk(h, d) ==
    \A f \in FieldNames(h[d].type) :
        LET fd == Fields(h[d].type)[f]
            v == EffectiveValue(h, d, f)
        IN  v = None \/ ((fd.choices = NoChoices \/ InChoices(v, fd.choices)) /\ FormatOk(h, fd, v))

\* C10: validate_partial() is false exactly when some present value fails its
\* choices or format check, never because a required field is missing, in the
\* document or in a document embedded in it.
C10_PartialIgnoresMissingRequired ==
    \A d \in Docs(heap) :
        LET r == ValidatePartial(heap, d)
        IN  r.err = NoErr => r.v = PartialDocOk(heap, d)

\* concatenation raised and left an owner of the proxy unmarked
C6_ConcatState ==
    /\ nops = 1
    /\ last.op = "list_concat"
    /\ last.raised = "TypeError"
    /\ \E p \in heap[last.obj].parents : ~Marked(heap, p[1], p[2])

\* validate() raised on a group whose ip is not a string
C7_ValidateRaisedState ==
    /\ last.op = "validate"
    /\ last.raised = "TypeError"
    /\ heap[last.obj].type = "Group"
    /\ heap[last.obj].vals["ip"].k = "int"

\* to_N(validate=False) raised on a document whose own fields are in order but
\* whose embedded document lacks a required field
C8_NestedRaisedState ==
    /\ last.op = "to_novalidate"
    /\ last.raised = "ValidationException"
    /\ ~MissingRequired(heap, last.obj)
    /\ \E o \in Children(heap, last.obj) : heap[o].kind = "doc"

\* validate_partial() is false though no present value fails, at any depth
C10_PartialFalseState ==
    \E d \in Docs(heap) :
        Gives(ValidatePartial(heap, d), FALSE) /\ PartialDocOk(heap, d)

\* the stored value is present and fails the type predicate of its field
Mismatch(h, d, f) ==
    /\ h[d].vals[f] \notin {Unset, None}
    /\ ~FormatOk(h, Fields(h[d].type)[f], h[d].vals[f])

\* C11: an attribute write on a declared field, whatever the value, raises
\* nothing, leaves the value on the instance where a read returns it, puts the
\* field name in the modified set, and a value that fails the field's type
\* predicate shows only as validate() returning false.
C11_AnyValueIsAccepted ==
    last.op = "setattr" =>
        /\ last.raised = NoErr
        /\ heap[last.obj].vals[last.name] # Unset
        /\ GetAttr(heap, last.obj, last.name) =
               [h |-> heap, v |-> heap[last.obj].vals[last.name]]
        /\ last.name \in heap[last.obj].modified
        /\ Mismatch(heap, last.obj, last.name) =>
               Gives(ValidateDoc(heap, last.obj, TRUE), FALSE)

\* a number was written to the ip field and validate() raises TypeError
C11_MismatchRaisesState ==
    /\ last.op = "setattr"
    /\ last.raised = NoErr
    /\ last.name = "ip"
    /\ heap[last.obj].vals["ip"] = IntV(5)
    /\ ValidateDoc(heap, last.obj, TRUE).err = "TypeError"

\* one step of an attribute write to a name outside the field table
UndeclaredWriteStep ==
    last'.op = "setattr_undeclared" =>
        /\ last'.raised = "AttributeError"
        /\ heap' = heap

\* C12: writing an attribute whose name is not in the field table of the
\* document's type is rejected with AttributeError and changes nothing.
C12_UndeclaredWriteRejected == [][UndeclaredWriteStep]_vars

\* an undeclared name was written without error and is now on the instance
C12_UndeclaredStoredState ==
    /\ last.op = "setattr_undeclared"
    /\ last.raised = NoErr
    /\ last.name \notin FieldNames(heap[last.obj].type)
    /\ last.name \in DOMAIN heap[last.obj].extra

\* ret is what a read yields for the default dflt: the default itself, or the
\* proxy made of a default list or mapping
YieldsDefault(h, ret, dflt) ==
    CASE dflt.k = "list" ->
           ret.k = "ref" /\ h[ret.n].kind = "list" /\ h[ret.n].items = dflt.s
      [] dflt.k = "dict" ->
           ret.k = "ref" /\ h[ret.n].kind = "dict" /\ h[ret.n].map = dflt.m
      [] OTHER -> ret = dflt

\* one step of an attribute read
ReadStep ==
    /\ last'.op = "getattr_undeclared" =>
         /\ heap' = heap
         /\ IF last'.name \in DOMAIN heap[last'.obj].extra
            THEN last'.raised = NoErr /\ last'.ret = heap[last'.obj].extra[last'.name]
            ELSE last'.raised = "AttributeError"
    /\ last'.op = "getattr" =>
         /\ last'.raised = NoErr
         /\ IF heap[last'.obj].vals[last'.name] = Unset
            THEN YieldsDefault(heap', last'.ret,
                               Fields(heap[last'.obj].type)[last'.name].default)
            ELSE last'.ret = heap[last'.obj].vals[last'.name] /\ heap' = heap

\* C13: reading a name that is neither in the field table nor attached to the
\* instance raises AttributeError; reading a declared field never raises, and
\* for a field never set yields its default (the result of the factory, the
\* proxy of a default container) or None when it has no default.
C13_ReadResolvesDefault == [][ReadStep]_vars

\* the first operation read the id of a user built without one: the result of
\* the factory
C13_Witness ==
    /\ nops = 1
    /\ last.op = "getattr"
    /\ last.name = "id"
    /\ last.raised = NoErr
    /\ last.ret = IntV(2)

\* value v of a field fd is what the import makes of the raw value: the value
\* itself, or the document or proxy built from a raw mapping or list
StoredAs(h, fd, v, raw) ==
    /\ v # Unset
    /\ raw.k \notin {"dict", "list"} => v = raw
    /\ (raw.k = "dict" /\ fd.kind = "embedded") => IsInstance(h, v, fd.field_type)
    /\ (raw.k = "dict" /\ fd.kind = "mapping") =>
           v.k = "ref" /\ h[v.n].kind = "dict" /\ DOMAIN h[v.n].map = DOMAIN raw.m
    /\ (raw.k = "list" /\ fd.kind = "list") =>
           v.k = "ref" /\ h[v.n].kind = "list" /\ Len(h[v.n].items) = Len(raw.s)

\* the keys of the export of d through N without validation, when it returns
ExportKeys(h, d, N) ==
    LET Dom(r) == IF r.err = NoErr THEN DOMAIN r.v.m ELSE {}
    IN  Dom(View(h, d, N, FALSE, FALSE))

\* one step of construction: T(**values) or T.from_N(**values)
ConstructStep ==
    last'.op \in {"new", "from"} =>
        LET d == last'.obj
            type == heap'[d].type
            values == last'.arg.m
        IN  /\ heap'[d].extra = EmptyMap
            /\ heap'[d].modified = {}
            /\ \A f \in FieldNames(type) :
                 IF /\ f \in DOMAIN values
                    /\ values[f] # None
                    /\ \E i \in DOMAIN SourceFields(type, last'.name) :
                           SourceFields(type, last'.name)[i] = f
                 THEN StoredAs(heap', Fields(type)[f], heap'[d].vals[f], values[f])
                 ELSE heap'[d].vals[f] = Unset
            /\ \A N \in PipelineNames :
                 HasView(type, N) => ExportKeys(heap', d, N) \subseteq FieldNames(type)

\* C14: construction from a mapping ignores every key outside the field table:
\* it is not on the instance, not in the modified set and in no export; every
\* key that is a declared field of the pipeline with a present value is stored.
C14_UnknownKeysIgnored == [][ConstructStep]_vars

\* a user was built from a mapping with a key outside the field table
C14_Witness ==
    /\ last.op = "new"
    /\ heap[last.obj].type = "User"
    /\ "bad_name" \in DOMAIN last.arg.m
    /\ heap[last.obj].vals["id"] = IntV(5)

\* one step of the modified sets: every document keeps the names it had
MonotonicStep ==
    \A o \in Docs(heap) :
        /\ o \in Docs(heap')
        /\ heap[o].modified \subseteq heap'[o].modified

\* C15: no operation (write, proxy mutation, import, validation, export, read)
\* removes a name from the modified set of a document.
C15_ModifiedIsMonotonic == [][MonotonicStep]_vars

\* the second write on a document left it with the names of both writes
C15_Witness ==
    /\ nops = 2
    /\ last.op = "setattr"
    /\ last.raised = NoErr
    /\ heap[last.obj].parents = {}
    /\ Cardinality(heap[last.obj].modified) = 2

RECURSIVE Structure(_, _)
\* the structure of an exported value: a proxy counts for its contents
Structure(h, v) ==
    CASE v.k = "ref" /\ h[v.n].kind = "list" ->
           PyList([i \in DOMAIN h[v.n].items |-> Structure(h, h[v.n].items[i])])
      [] v.k = "ref" /\ h[v.n].kind = "dict" ->
           PyDict([key \in DOMAIN h[v.n].map |-> Structure(h, h[v.n].map[key])])
      [] v.k = "list" -> PyList([i \in DOMAIN v.s |-> Structure(h, v.s[i])])
      [] v.k = "dict" -> PyDict([key \in DOMAIN v.m |-> Structure(h, v.m[key])])
      [] OTHER -> v

\* d.to_dict(validate=False)
ToDict(h, d) == View(h, d, "dict", FALSE, FALSE)

\* T.from_dict(**r.v).to_dict(validate=False), r being a returned export
FromDictToDict(type, r) ==
    LET Export(c) == ToDict(c.h, c.v.n)
    IN  IF r.err # NoErr THEN r
        ELSE Export(FromSource(r.h, type, "dict", r.v.m))

\* both exports returned and have the same structure
SameStructure(r1, r2) ==
    /\ r1.err = NoErr
    /\ r2.err = NoErr
    /\ Structure(r2.h, r2.v) = Structure(r1.h, r1.v)

RoundTrips(h, d) ==
    LET Both(r1) == SameStructure(r1, FromDictToDict(h[d].type, r1))
    IN  Both(ToDict(h, d))

\* a fresh strict walk of d, embedded documents included, succeeds
FullyValid(h, d) == Gives(FreshWalk(h, d), TRUE)

\* C16: for every fully valid document d of type T,
\* T.from_dict(**d.to_dict(validate=False)).to_dict(validate=False) has the same
\* structure as d.to_dict(validate=False).
C16_BaselineRoundTrip ==
    \A d \in Docs(heap) : FullyValid(heap, d) => RoundTrips(heap, d)

\* a fully valid group with an embedded user, a list and a mapping of embedded
\* tokens, that round-trips
C16_Witness ==
    \E d \in Docs(heap) :
        /\ heap[d].type = "Group"
        /\ \A f \in {"user", "friends", "tags"} : heap[d].vals[f].k = "ref"
        /\ DOMAIN heap[heap[d].vals["tags"].n].map # {}
        /\ FullyValid(heap, d)
        /\ RoundTrips(heap, d)

\* a sequence without repetition
NoRepeat(names) == Cardinality(Range(names)) = Len(names)

\* one step of a registration: the names registered for the pipeline
ResolveStep ==
    last'.op \in {"add_source", "add_view"} =>
        LET c == last'.name
            a == last'.arg
            names == IF last'.op = "add_source" THEN classes'[c].source[a.N]
                     ELSE classes'[c].view[a.N]
            table == DOMAIN classes[c].fields
        IN  /\ a.keep_fields # None => names = a.keep_fields.s
            /\ (a.keep_fields = None /\ a.remove_fields # None) =>
                   Range(names) = table \ Range(a.remove_fields.s) /\ NoRepeat(names)
            /\ (a.keep_fields = None /\ a.remove_fields = None) =>
                   Range(names) = table /\ NoRepeat(names)
            /\ SourceFieldsOf(classes[c].fields, a.keep_fields, a.remove_fields) =
               ViewFieldsOf(classes[c].fields, a.keep_fields, a.remove_fields)

\* C18: add_source and add_view register for pipeline N the allow-list when
\* one is given, even with a deny-list; else the field table minus the
\* deny-list when one is given; else the field table; and both resolve the
\* same arguments to the same names.
C18_AllowThenDenyThenAll == [][ResolveStep]_vars

\* a view registered with both lists on a class that has the denied field
C18_Witness ==
    /\ last.op = "add_view"
    /\ last.arg.keep_fields = PyList(<<"name", "sub">>)
    /\ last.arg.remove_fields = PyList(<<"id">>)
    /\ DOMAIN classes[last.name].fields = {"id", "name"}
    /\ classes[last.name].view[last.arg.N] = <<"name", "sub">>

\* the names of the fields among the attributes of a class body
OwnFields(attrs) == {x \in DOMAIN attrs : IsField(attrs[x])}

\* one step of a class statement
CompileStep ==
    last'.op = "class" =>
        LET c == last'.name
            bases == last'.arg.bases
            attrs == last'.arg.attrs
            new == classes'[c]
        IN  /\ c \notin DOMAIN classes
            /\ \A x \in DOMAIN classes : classes'[x] = classes[x]
            /\ DOMAIN new.fields =
                   OwnFields(attrs) \cup UNION {DOMAIN classes[b].fields : b \in Range(bases)}
            /\ \A f \in OwnFields(attrs) : new.fields[f] = attrs[f]
            /\ \A f \in DOMAIN new.fields \ OwnFields(attrs) :
                   \E b \in Range(bases) :
                       f \in DOMAIN classes[b].fields /\ new.fields[f] = classes[b].fields[f]
            /\ "dict" \in DOMAIN new.source /\ "dict" \in DOMAIN new.view
            /\ Range(new.source["dict"]) = DOMAIN new.fields /\ NoRepeat(new.source["dict"])
            /\ Range(new.view["dict"]) = DOMAIN new.fields /\ NoRepeat(new.view["dict"])

\* C19: a class statement gives the new type a "dict" source and a "dict" view
\* over all its fields; its field table is that of its bases plus its own
\* fields, an own field replacing the inherited one of the same name; the
\* classes that existed keep their field table and their pipelines.
C19_CompileCoversAllFields == [][CompileStep]_vars

\* a subclass that redeclares the id of its base and adds a name
C19_Witness ==
    /\ last.op = "class"
    /\ last.arg.bases # <<Root>>
    /\ \E b \in Range(last.arg.bases) :
         /\ "id" \in DOMAIN classes[b].fields
         /\ "id" \in OwnFields(last.arg.attrs)
         /\ classes[last.name].fields["id"] # classes[b].fields["id"]
         /\ "name" \notin DOMAIN classes[b].fields
    /\ DOMAIN classes[last.name].fields = {"id", "name"}

\* the views registered with an allow-list that leaves out a field of the type
AllowListViews == {<<"User", "public">>, <<"User", "short">>, <<"OAuthToken", "public">>}

\* the names of N's view whose field has a value: set, or supplied by the default
PresentIn(h, d, N) ==
    {f \in Range(ViewFields(h[d].type, N)) : EffectiveValue(h, d, f) # None}

\* to_N(validate) of d, when it returns, has exactly the keys PresentIn
AllowListExport(h, d, N, validate) ==
    LET K(r) == r.err = NoErr => DOMAIN r.v.m = PresentIn(h, d, N)
    IN  K(View(h, d, N, FALSE, validate))

\* C17: for a view registered with an allow-list that is a strict subset of
\* the fields and no filter, the mapping to_N returns has as keys exactly the
\* names of the allow-list whose field has a value, set or supplied by its
\* default; no other field appears.
C17_AllowListViewKeys ==
    /\ \A d \in Docs(heap) : \A validate \in BOOLEAN : \A N \in PipelineNames :
         <<heap[d].type, N>> \in AllowListViews =>
             AllowListExport(heap, d, N, validate)
    /\ (/\ last.op \in {"to", "to_novalidate"}
        /\ last.raised = NoErr
        /\ <<heap[last.obj].type, last.name>> \in AllowListViews) =>
           /\ DOMAIN last.ret.m \subseteq Range(ViewFields(heap[last.obj].type, last.name))
           /\ \A f \in Range(ViewFields(heap[last.obj].type, last.name)) :
                f \in DOMAIN last.ret.m <=> heap[last.obj].vals[f] \notin {Unset, None}

\* to_short returned the defaulted id and the token that was set, and left
\* out the tokens that were set too
C17_Witness ==
    /\ last.op = "to_novalidate"
    /\ last.name = "short"
    /\ last.raised = NoErr
    /\ heap[last.obj].type = "User"
    /\ DOMAIN last.ret.m = {"id", "token"}
    /\ heap[last.obj].vals["tokens"] \notin {Unset, None}
    /\ heap[last.obj].modified = {"token", "tokens"}

\* the names of N's view that are modified and whose field has a value
ModifiedIn(h, d, N) ==
    {f \in Range(ViewFields(h[d].type, N)) :
        f \in h[d].modified /\ EffectiveValue(h, d, f) # None}

\* to_N(only_modified=True, validate) of d, when it returns, has exactly keys
OnlyModifiedExport(h, d, N, validate, keys) ==
    LET K(r) == r.err = NoErr => DOMAIN r.v.m = keys
    IN  K(View(h, d, N, TRUE, validate))

\* C20: to_N(only_modified=True) returns a mapping whose keys are exactly the
\* names of N's field subset that are in the modified set and have a value; a
\* document just constructed or imported exports an empty mapping.
C20_OnlyModifiedKeys ==
    /\ \A d \in Docs(heap) : \A N \in PipelineNames : \A validate \in BOOLEAN :
         HasView(heap[d].type, N) =>
             OnlyModifiedExport(heap, d, N, validate, ModifiedIn(heap, d, N))
    /\ (last.op \in {"new", "from"} /\ last.raised = NoErr) =>
           \A N \in PipelineNames : \A validate \in BOOLEAN :
               HasView(heap[last.obj].type, N) =>
                   OnlyModifiedExport(heap, last.obj, N, validate, {})
    /\ (last.op \in {"to_modified", "to_modified_novalidate"} /\ last.raised = NoErr) =>
           DOMAIN last.ret.m = ModifiedIn(heap, last.obj, last.name)

\* to_dict(only_modified=True) returned the token that was assigned and left
\* out the id and the tokens that the defaults supply
C20_Witness ==
    /\ last.op = "to_modified"
    /\ last.name = "dict"
    /\ last.raised = NoErr
    /\ heap[last.obj].type = "User"
    /\ DOMAIN last.ret.m = {"token"}
    /\ heap[last.obj].modified = {"token"}
    /\ EffectiveValue(heap, last.obj, "id") # None
    /\ EffectiveValue(heap, last.obj, "tokens") # None

\* what to_N() of the embedded document value returns, called after the export
NestedExport(h, N, value) == View(h, value.n, N, FALSE, TRUE).v

\* the entry the export r of d through N has for the embedded field f is what
\* the nested documents' own to_N returns
NestedThroughOwnView(h, d, N, r, f) ==
    LET fd == Fields(h[d].type)[f]
        value == h[d].vals[f]
    IN  IF fd.kind = "embedded"
        THEN r.v.m[f] = NestedExport(h, N, value)
        ELSE IF fd.kind = "list" /\ IsSequence(h, value)
        THEN /\ Len(r.v.m[f].s) = Len(SeqItems(h, value))
             /\ \A i \in DOMAIN SeqItems(h, value) :
                  r.v.m[f].s[i] = NestedExport(h, N, SeqItems(h, value)[i])
        ELSE IF fd.kind = "mapping"
        THEN /\ DOMAIN r.v.m[f].m = DOMAIN MapItems(h, value)
             /\ \A key \in DOMAIN MapItems(h, value) :
                  r.v.m[f].m[key] = NestedExport(h, N, MapItems(h, value)[key])
        ELSE TRUE

\* the export of d through N, when it returns, holds for every embedded field
\* the nested documents' own export through N
ExportsNested(h, d, N, validate) ==
    LET K(r) == r.err = NoErr =>
                  \A f \in DOMAIN r.v.m :
                      EmbeddedType(Fields(h[d].type)[f]) # "" =>
                          NestedThroughOwnView(r.h, d, N, r, f)
    IN  K(View(h, d, N, FALSE, validate))

\* C21: to_N exports every embedded document, held directly, in a list or in
\* a mapping, through to_N of the nested type: the view N the nested type
\* registered itself is kept, whether it registered before or after the
\* embedding type, and its names apply to the nested output; a nested type
\* without a view N received one over all its fields.
C21_NestedExportThroughOwnView ==
    /\ classes["OAuthToken"].view["public"] = <<"consumer_secret">>
    /\ Range(classes["OAuthToken"].view["short"]) = FieldNames("OAuthToken")
    /\ SchemaClassesNestedLast = classes
    /\ \A d \in Docs(heap) : \A N \in PipelineNames : \A validate \in BOOLEAN :
         HasView(heap[d].type, N) => ExportsNested(heap, d, N, validate)
    /\ (/\ last.op \in {"to", "to_novalidate"}
        /\ last.raised = NoErr
        /\ heap[last.obj].type = "User"
        /\ "token" \in DOMAIN last.ret.m) =>
           DOMAIN last.ret.m["token"].m =
               PresentIn(heap, heap[last.obj].vals["token"].n, last.name)

\* to_public of a User returned its token with the consumer_secret alone, the
\* token having its active flag too, and its list of one token
C21_Witness ==
    /\ last.op = "to"
    /\ last.name = "public"
    /\ last.raised = NoErr
    /\ heap[last.obj].type = "User"
    /\ DOMAIN last.ret.m = {"token", "tokens"}
    /\ DOMAIN last.ret.m["token"].m = {"consumer_secret"}
    /\ heap[heap[last.obj].vals["token"].n].vals["active"] # Unset
    /\ Len(last.ret.m["tokens"].s) = 1
    /\ DOMAIN last.ret.m["tokens"].s[1].m = {"consumer_secret"}

\* the fields update_from_N stores: the names of N's source that the mapping
\* gives a value other than None
StoredBy(type, N, data) ==
    {f \in Range(SourceFields(type, N)) \cap FieldNames(type) :
        f \in DOMAIN data /\ data[f] # None}

\* one step of update_from_N(data, changed) that returns, or of from_N
UpdateStep ==
    /\ (last'.op \in {"update", "update_changed"} /\ last'.raised = NoErr) =>
        LET d == last'.obj
            type == heap[d].type
            stored == StoredBy(type, last'.name, last'.arg.m)
        IN  /\ \A f \in FieldNames(type) :
                 IF f \in stored
                 THEN StoredAs(heap', Fields(type)[f], heap'[d].vals[f], last'.arg.m[f])
                 ELSE heap'[d].vals[f] = heap[d].vals[f]
            /\ last'.op = "update" => heap'[d].modified = heap[d].modified
            /\ last'.op = "update_changed" =>
                 /\ heap'[d].modified = heap[d].modified \cup stored
                 /\ stored # {} =>
                      /\ ~heap'[d].is_valid
                      /\ \A p \in heap[d].parents :
                           p[2] \in heap'[p[1]].modified /\ ~heap'[p[1]].is_valid
    /\ (last'.op = "from" /\ last'.raised = NoErr) => heap'[last'.obj].modified = {}

\* C22: update_from_N(mapping, changed) stores exactly the fields of N's
\* source whose key has a value in the mapping and leaves the value of every
\* other field; with changed=True it adds exactly those names to the modified
\* set, clears the validity cache and notifies the owners; with changed=False,
\* and for from_N, the modified set is unchanged.
C22_UpdateStoresAndMarks == [][UpdateStep]_vars

\* update_from_public(changed=True) of an owned user stored the token, left
\* the tokens the mapping also gave, and marked the owner's field
C22_Witness ==
    /\ last.op = "update_changed"
    /\ last.name = "public"
    /\ last.raised = NoErr
    /\ heap[last.obj].type = "User"
    /\ {"token", "tokens"} \subseteq DOMAIN last.arg.m
    /\ last.arg.m["tokens"] # None
    /\ heap[last.obj].modified = {"token"}
    /\ heap[last.obj].vals["tokens"] = Unset
    /\ \E p \in heap[last.obj].parents : p[2] \in heap[p[1]].modified

\* the list the field holds, or its default, is a sequence whose length is
\* within the bounds of the field and whose elements are all integers
ListWithinBounds(h, d, f) ==
    LET fd == Fields(h[d].type)[f]
        v == EffectiveValue(h, d, f)
    IN  /\ IsSequence(h, v)
        /\ fd.min_length = NoLen \/ Len(SeqItems(h, v)) >= fd.min_length
        /\ fd.max_length = NoLen \/ Len(SeqItems(h, v)) <= fd.max_length
        /\ \A i \in DOMAIN SeqItems(h, v) : SeqItems(h, v)[i].k \in {"int", "bool"}

\* one validate() of a group: true only with its friends within bounds, and
\* true with them within bounds when its other fields pass
BoundedListStep ==
    (last'.op = "validate" /\ last'.raised = NoErr /\ heap[last'.obj].type = "Group") =>
        LET d == last'.obj
        IN  /\ last'.ret = BoolV(1) => ListWithinBounds(heap, d, "friends")
            /\ (/\ ListWithinBounds(heap, d, "friends")
                /\ \A f \in FieldNames("Group") \ {"friends"} : FieldPasses(heap, d, f))
               => last'.ret = BoolV(1)

OwnsItself(h, o) == \E q \in OwnerLinks(h, {o}, {o}) : q[1] = o

\* C24: cyclic ownership is forbidden: after any sequence of attribute writes
\* and container mutations no document or proxy is met going up its own
\* backlinks, the operation that would embed a structure within itself or
\* within a descendant being detected and rejected.
C24_BacklinksAcyclic == \A o \in Objs(heap) : ~OwnsItself(heap, o)

\* a document was put into a list it owns: the operation raised from the
\* notification, the list is as it was, and the document is its own owner
C24_SelfOwnedState ==
    /\ last.op \in {"list_append", "list_insert", "list_setitem"}
    /\ last.raised = "RuntimeError"
    /\ \E d \in Docs(heap) :
         /\ OwnsItself(heap, d)
         /\ \E p \in heap[d].parents :
              /\ p[1] = d
              /\ heap[d].vals[p[2]] = Ref(last.obj)
              /\ \A i \in DOMAIN heap[last.obj].items : heap[last.obj].items[i] # Ref(d)

\* the value is of the scalar type of the field
WellTyped(fd, v) ==
    CASE fd.kind = "int" -> v.k \in {"int", "bool"}
      [] fd.kind = "bool" -> v.k = "bool"
      [] fd.kind = "str" -> v.k = "str"
      [] OTHER -> TRUE

\* every field of d with a closed choice set and a value has a value that is
\* among the choices and well typed
ChoicesRespected(h, d) ==
    \A f \in FieldNames(h[d].type) :
        LET fd == Fields(h[d].type)[f]
            v == EffectiveValue(h, d, f)
        IN  (fd.choices # NoChoices /\ v # None) =>
                (\E c \in fd.choices : c = v) /\ WellTyped(fd, v)

\* C25: for a field with a closed choice set, a value makes validation succeed
\* only if it is among the choices and passes the type validator of the
\* field: a value outside the choices fails though well typed, a value among
\* the choices fails when ill typed.  (validate_partial always walks the
\* fields; validate walks them when nothing is cached.)
C25_ChoicesAndType ==
    \A d \in Docs(heap) :
        /\ Gives(ValidatePartial(heap, d), TRUE) => ChoicesRespected(heap, d)
        /\ (~heap[d].is_valid /\ Gives(ValidateDoc(heap, d, TRUE), TRUE))
               => ChoicesRespected(heap, d)
        /\ (/\ ChoicesRespected(heap, d)
            /\ \A f \in FieldNames(heap[d].type) :
                 Fields(heap[d].type)[f].choices = NoChoices => FieldPasses(heap, d, f))
           => \A r \in {ValidatePartial(heap, d), ValidateDoc(heap, d, TRUE)} :
                  r.err = NoErr => r.v = TRUE

\* two users fail validation: one with an id among the choices that is not an
\* integer, one with an integer id outside the choices
C25_Witness ==
    \E d, e \in Docs(heap) :
        /\ heap[d].type = "User" /\ heap[e].type = "User"
        /\ heap[d].vals["id"] = StrV(1)
        /\ StrV(1) \in Fields("User")["id"].choices
        /\ Gives(ValidateDoc(heap, d, TRUE), FALSE)
        /\ Gives(ValidatePartial(heap, d), FALSE)
        /\ heap[e].vals["id"] = IntV(5)
        /\ IntV(5) \notin Fields("User")["id"].choices
        /\ Gives(ValidateDoc(heap, e, TRUE), FALSE)

\* owner o has x as the value of its field f, or inside the proxy that is the
\* value of its field f
HeldUnder(h, o, f, x) ==
    /\ f \in FieldNames(h[o].type)
    /\ h[o].vals[f].k = "ref"
    /\ \/ h[o].vals[f].n = x
       \/ h[h[o].vals[f].n].kind \in {"list", "dict"} /\ x \in Children(h, h[o].vals[f].n)

\* C26: backlink soundness: in every reachable state every backlink (O, f) of
\* a document or proxy corresponds to O holding it under field f, directly or
\* inside the container of that field; so a value replaced in or removed from
\* its owner's field no longer reaches that owner when mutated.
C26_BacklinksSound ==
    \A x \in Objs(heap) : \A p \in heap[x].parents :
        heap[p[1]].kind = "doc" /\ HeldUnder(heap, p[1], p[2], x)

\* an attribute write that returned replaced a document, which keeps its
\* backlink to the owner and field that hold another value now
C26_StaleBacklinkState ==
    /\ last.op = "setattr"
    /\ last.raised = NoErr
    /\ \E x \in Docs(heap) :
         /\ <<last.obj, last.name, "field">> \in heap[x].parents
         /\ heap[last.obj].vals[last.name].k = "ref"
         /\ heap[heap[last.obj].vals[last.name].n].kind = "doc"
         /\ heap[last.obj].vals[last.name].n # x
         /\ ~HeldUnder(heap, last.obj, last.name, x)

RECURSIVE Nested(_, _, _)
\* the documents and containers that value v holds where field fd declares
\* them, at any depth short of another document's fields, v included
Nested(h, fd, v) ==
    CASE fd.kind = "embedded" -> IF IsInstance(h, v, fd.field_type) THEN {v} ELSE {}
      [] fd.kind = "list" ->
           IF IsSequence(h, v)
           THEN {v} \cup UNION {Nested(h, fd.subfield, SeqItems(h, v)[i])
                                : i \in DOMAIN SeqItems(h, v)}
           ELSE {}
      [] fd.kind = "mapping" ->
           IF IsMapping(h, v)
           THEN {v} \cup UNION {Nested(h, fd.valuesubfield, MapItems(h, v)[key])
                                : key \in DOMAIN MapItems(h, v)}
           ELSE {}
      [] OTHER -> {}

\* value v carries a backlink to field f of document o
LinkedTo(h, v, o, f) == v.k = "ref" /\ \E p \in h[v.n].parents : p[1] = o /\ p[2] = f

\* C27: in every reachable state, every embedded document and every nested
\* container that a document holds under one of its fields, at any depth, carries
\* a backlink to that document and field (and so, level by level, to every
\* document above it).
C27_BacklinksComplete ==
    \A o \in Docs(heap) : \A f \in FieldNames(heap[o].type) :
        \A v \in Nested(heap, Fields(heap[o].type)[f], heap[o].vals[f]) :
            LinkedTo(heap, v, o, f)

\* a matrix whose cache says valid while a row appended to its proxy, a plain
\* list without backlink, has received a string
C27_UnlinkedRowState ==
    \E o \in Docs(heap) :
        /\ heap[o].type = "Matrix"
        /\ heap[o].is_valid
        /\ Gives(FreshWalk(heap, o), FALSE)
        /\ last.op = "item_append"
        /\ heap[o].vals["rows"] = Ref(last.obj)
        /\ \E i \in DOMAIN heap[last.obj].items : heap[last.obj].items[i].k = "list"

\* the proxy operations that fail on a bad index or key
FailingOps == {"list_setitem", "list_delitem", "list_pop", "dict_delitem"}

\* one step of a proxy operation that raised IndexError or KeyError
FailedStep ==
    (last'.op \in FailingOps /\ last'.raised \in {"IndexError", "KeyError"}) =>
        \* the contents of the container
        /\ heap'[last'.obj] = heap[last'.obj]
        \* the backlinks of every object, the element included
        /\ \A x \in Objs(heap) : heap'[x].parents = heap[x].parents
        \* the modified set and the cache of every document
        /\ \A o \in Docs(heap) :
             /\ heap'[o].modified = heap[o].modified
             /\ heap'[o].is_valid = heap[o].is_valid

\* C28: a proxy operation that fails (index assignment or deletion out of range,
\* deletion of a missing key, pop on an empty list) leaves the contents of the
\* container, the backlinks of the element and the modified set and cache of
\* every owner as they were.
C28_FailedOpChangesNothing == [][FailedStep]_vars

\* an index assignment out of range, performed first on freshly built documents,
\* that raised IndexError after it marked an owner and linked the element
C28_FailedOpMarkedState ==
    /\ nops = 1
    /\ last.op = "list_setitem"
    /\ last.raised = "IndexError"
    /\ \E p \in heap[last.obj].parents :
         /\ p[2] \in heap[p[1]].modified
         /\ \E x \in Docs(heap) : p \in heap[x].parents /\ ~HeldUnder(heap, p[1], p[2], x)

ExportOps == {"to", "to_modified", "to_novalidate", "to_modified_novalidate"}

\* the call of to_N that the step made, made again on heap h
ExportAgain(h, l) ==
    View(h, l.obj, l.name, l.op \in {"to_modified", "to_modified_novalidate"},
         l.op \in {"to", "to_modified"})

\* one step of validate(), validate_partial() or to_N()
ReadOnlyStep ==
    last'.op \in ValidatingOps =>
        \* the modified sets and the values that were set
        /\ \A o \in Docs(heap) :
             /\ heap'[o].modified = heap[o].modified
             /\ \A f \in FieldNames(heap[o].type) :
                  heap[o].vals[f] # Unset => heap'[o].vals[f] = heap[o].vals[f]
        \* the contents of the proxies: an embedded document stays a document
        /\ \A p \in Lists(heap) : heap'[p].items = heap[p].items
        /\ \A p \in Dicts(heap) : heap'[p].map = heap[p].map
        \* the same export made again returns an equal mapping
        /\ (last'.op \in ExportOps /\ last'.raised = NoErr) =>
             LET Same(r) == r.err = NoErr /\ r.v = last'.ret
             IN  Same(ExportAgain(heap', last'))

\* C29: validate(), validate_partial() and to_N() leave the modified set of every
\* document and every field value that was set as they were; the embedded
\* documents held directly, in a list or in a mapping stay document instances;
\* the same export made twice in a row returns equal mappings.
C29_ReadOnlyValidationAndExport == [][ReadOnlyStep]_vars

\* an export that returned, of a user that holds a token directly and in its
\* list and whose modified set is not empty
C29_Witness ==
    /\ last.op \in ExportOps
    /\ last.raised = NoErr
    /\ heap[last.obj].type = "User"
    /\ heap[last.obj].modified # {}
    /\ IsDocRef(heap, heap[last.obj].vals["token"])
    /\ heap[last.obj].vals["tokens"].k = "ref"
    /\ \E i \in DOMAIN heap[heap[last.obj].vals["tokens"].n].items :
         IsDocRef(heap, heap[heap[last.obj].vals["tokens"].n].items[i])
    /\ "token" \in DOMAIN last.ret.m
    /\ "tokens" \in DOMAIN last.ret.m

\* an in-place mutation of proxy p: an element appended, a key set
MutateInPlace(h, p) ==
    IF h[p].kind = "list" THEN ListAppend(h, p, IntV(1))
    ELSE DictSetItem(h, p, "k1", IntV(1))

\* one step of a read d.f of a declared field
DefaultStep ==
    last'.op = "getattr" =>
        LET d == last'.obj
            f == last'.name
            fd == Fields(heap[d].type)[f]
        IN  \* silent: no modified set and no cache changes
            /\ \A o \in Docs(heap) :
                 /\ heap'[o].modified = heap[o].modified
                 /\ heap'[o].is_valid = heap[o].is_valid
                 \* stable: a value that is set is what every read finds
                 /\ \A g \in FieldNames(heap[o].type) :
                      heap[o].vals[g] # Unset => heap'[o].vals[g] = heap[o].vals[g]
            /\ heap[d].vals[f] # Unset => (last'.ret = heap[d].vals[f] /\ heap' = heap)
            \* the first read of an unset field whose default is present
            /\ (heap[d].vals[f] = Unset /\ fd.default # None) =>
                 /\ last'.ret \notin {Unset, None}
                 /\ heap'[d].vals[f] = last'.ret
                 /\ ReadAttribute(heap', d, f) = Ok(heap', last'.ret)
                 /\ fd.kind \in {"list", "mapping"} =>
                      /\ last'.ret.k = "ref"
                      /\ last'.ret.n \notin DOMAIN heap
                      /\ heap'[last'.ret.n].kind = (IF fd.kind = "list" THEN "list" ELSE "dict")
                      /\ <<d, f, "field">> \in heap'[last'.ret.n].parents
                      /\ \A r \in MutateInPlace(heap', last'.ret.n) : Marked(r.h, d, f)

\* C30: the first read of an unset declared field whose default is present stores
\* the value in the instance, so that every later read returns it and invokes
\* nothing; a read changes no modified set and no cache; a list or mapping
\* default is a new proxy backlinked to the instance and field, and mutating it
\* in place marks the field.
C30_DefaultStableAndSilent == [][DefaultStep]_vars

\* the first operation read the tokens of a user built without any: the result
\* is a new empty proxy, stored in the instance and backlinked to it, and the
\* modified set is still empty
C30_Witness ==
    /\ nops = 1
    /\ last.op = "getattr"
    /\ last.name = "tokens"
    /\ last.ret = Ref(Len(heap))
    /\ heap[last.ret.n].kind = "list"
    /\ heap[last.ret.n].items = <<>>
    /\ heap[last.ret.n].parents = {<<last.obj, "tokens", "field">>}
    /\ heap[last.obj].vals["tokens"] = last.ret
    /\ heap[last.obj].modified = {}

\* the step acted on instance b: a write of one of its attributes, or a mutation
\* of the proxy one of its list or mapping fields holds
ActsOn(h, b, l) ==
    \/ l.op = "setattr" /\ l.obj = b
    \/ /\ l.op \in ProxyOps
       /\ \E f \in FieldNames(h[b].type) : h[b].vals[f] = Ref(l.obj)

\* a and b reach no common object: neither holds the other, nor do they hold a
\* common document or proxy, at any depth
Apart(h, a, b) == Reach(h, {a}, {a}) \cap Reach(h, {b}, {b}) = {}

\* the proxies the fields of a hold have the same contents in h1 and h2
SameProxies(h1, h2, a) ==
    \A f \in FieldNames(h1[a].type) :
        (h1[a].vals[f].k = "ref" /\ h1[h1[a].vals[f].n].kind # "doc") =>
            LET K(x) == IF x.kind = "list" THEN x.items ELSE x.map
            IN  K(h2[h1[a].vals[f].n]) = K(h1[h1[a].vals[f].n])

\* one step of a write or a mutation on an instance b, seen from another instance
\* a of the same type
IsolationStep ==
    \A a, b \in Docs(heap) :
        (/\ a # b
         /\ heap[a].type = heap[b].type
         /\ Apart(heap, a, b)
         /\ ActsOn(heap, b, last')) =>
            /\ heap'[a].vals = heap[a].vals
            /\ SameProxies(heap, heap', a)
            /\ heap'[a].modified = heap[a].modified
            /\ heap'[a].is_valid = heap[a].is_valid

\* C31: for two instances of the same type that hold no common embedded document
\* (here, that reach no common object at all), an attribute write or an in-place
\* mutation of a list or mapping field of one leaves the field values, the
\* modified set and the validity cache of the other unchanged.
C31_InstancesIsolated == [][IsolationStep]_vars

\* a user just validated, its cache valid, that reaches nothing in common with
\* another user, while that user still carries its backlink: the next write on
\* the other user dirties this one
C31_PeerLinkedState ==
    /\ last.op = "validate"
    /\ heap[last.obj].is_valid
    /\ \E b \in Docs(heap) :
         /\ b # last.obj
         /\ heap[b].type = heap[last.obj].type
         /\ Apart(heap, last.obj, b)
         /\ <<last.obj, "tokens", "field">> \in heap[b].parents
         /\ \A r \in SetAttribute(heap, b, "id", IntV(3)) :
              r.err = NoErr /\ ~r.h[last.obj].is_valid

\* C32: every attribute write and every container mutation terminates: the
\* notification through the backlinks completes, whatever ownership structure
\* the operations built (RuntimeError is the interpreter cutting a recursion
\* that does not end).
C32_NotificationTerminates ==
    last.op \in MutationOps => last.raised # "RuntimeError"

\* an attribute write on a document that is its own owner: the notification
\* marked the name, never completed, and the value was not stored
C32_EndlessNotificationState ==
    /\ last.op = "setattr"
    /\ last.raised = "RuntimeError"
    /\ OwnsItself(heap, last.obj)
    /\ last.name = "id"
    /\ "id" \in heap[last.obj].modified
    /\ heap[last.obj].vals["id"] = Unset
=============================================================================
